---- MODULE Spec2Model ----
(***************************************************************************)
(* Model of the webhook extension's delivery queue manager (background     *)
(* script: addToQueue, processQueue, showQueueNotification,                *)
(* clearQueueNotification, postToWebhookDirect) and of the LinkedIn        *)
(* multi-page session collector (content script:                           *)
(* parseAllMutualConnections and the steps it awaits).                     *)
(***************************************************************************)
EXTENDS Integers, Sequences, FiniteSets, TLC

(***************************************************************************)
(* Bounds of the model.                                                    *)
(***************************************************************************)
\* number of addToQueue calls explored
MaxEntries == 3
\* value of Date.now() in the initial state (ms)
StartTime == 5000
\* granularity with which the clock advances (ms)
ClockStep == 1000
\* number of clock advances explored
MaxTicks == 4
\* number of deliveries whose responses are explored
MaxDeliveries == 1
\* number of addToQueue calls explored together with the notification callbacks
MaxNotified == 3
\* number of clock advances explored together with the notification callbacks
MaxNotificationTicks == 2
\* entries enqueued while the refresh timers are followed
MaxRefreshed == 3
\* entries enqueued to the rate-limited endpoint whose retries are followed
MaxRetried == 2
\* entries enqueued while the rate limits are rewritten from storage
MaxDrained == 2
\* webhooks configured in chrome.storage at most
MaxWebhooks == 2
\* calls of sendLinkedInDataToWebhooks followed
MaxSends == 1
\* calls of extractLinkedInProfileAndSend followed
MaxProfileSends == 1
\* pages of a session whose waits are followed
MaxPacedPages == 2
\* calls of the mutual-connections handlers followed
MaxHandlers == 2
\* parse requests the message listener of one content script gets
MaxMessages == 2
\* clicks on items of the context menu followed
MaxClicks == 2
\* the minimum interval of that endpoint (s)
RetryRateLimit == 2
\* how far past the start the clock of the refresh timers runs (ms)
RefreshHorizon == 65000
\* config.maxPagesPerSession, scaled down from its default of 50
maxPagesPerSession == 3
\* result items a search-results page holds at most
MaxItemsPerPage == 2
\* number of parseAllMutualConnections calls explored
MaxCalls == 2
\* granularity with which the clock advances while a session runs (ms)
SessionClockStep == 100000
\* number of clock advances explored while sessions run
MaxSessionTicks == 4
\* result items on one page of a session that runs to completion
MaxRecordsPerPage == 2
\* records and result items of one more page in such a session
MaxRecords == 4
\* elements of a document the Field Extractor is applied to
MaxElements == 2
\* parts of a selector list
MaxCandidates == 2
\* items of a profile section
MaxListItems == 2
\* ms by which the clock advances during a page-load wait
PageLoadClockStep == 5000

(***************************************************************************)
(* Program constants.                                                      *)
(***************************************************************************)
\* queueData.rateLimit * 1000
MsPerSecond == 1000
\* postToWebhookDirect(webhookUrl, item.payload, 3, item.webhookName)
InitialRetryCount == 3
\* setTimeout(..., 1000) after a non-ok response
HttpRetryDelay == 1000
\* setTimeout(..., 2000) after a rejected fetch
NetworkRetryDelay == 2000
\* setTimeout(() => clearQueueNotification(webhookUrl), 60000)
NotificationCeiling == 60000
\* { settings: { notificationInterval: 5 } }
notificationInterval == 5

\* config.sessionTimeout: 300_000
sessionTimeout == 300000

Urls == {"A", "B"}
\* the rate limits (seconds) callers pass; 0 is no limit
RateLimits == {0, 1, 2}
\* a timer handle field that holds null
NoTimer == 0
\* value="3" of the linkedinDelay input
DefaultLinkedinDelay == 3
\* config.delays of the parser and config of the AntiDetectionManager (ms)
minPageDelay == 2000
maxPageDelay == 7000
minDelay == 2000
maxDelay == 7000
\* humanScroll: Math.random() * 2000 + 1000 (ms)
MinScrollDuration == 1000
ScrollDurationSpan == 2000
\* waitForPageLoad: setTimeout(resolve, 10_000)
PageLoadTimeout == 10000

VARIABLES
  now,                \* Date.now() of the background script
  webhookQueues,      \* Map webhookUrl -> {queue, lastSent, timer, rateLimit}
  queueNotifications, \* Map webhookUrl -> {notificationId, intervalId}
  timers,             \* live setTimeout timers that re-run processQueue
  storageGets,        \* chrome.storage.local.get calls of showQueueNotification in flight
  intervals,          \* live setInterval timers of queue notifications
  clearTimers,        \* live 60 s auto-clear timers
  shown,              \* queue notifications currently displayed
  deliveries,         \* payload -> state of its postToWebhookDirect chain
  nextPayload,        \* identity of the next payload handed to addToQueue
  sent,               \* history: webhookUrl -> sequence of dispatches
  hist,               \* history: payload -> how addToQueue treated it
  rlHist,             \* history: webhookUrl -> rate limits it ever had
  raised,             \* history: payloads whose queued notification was created
  isProcessing,       \* parser.isProcessing
  currentSession,     \* parser.currentSession
  run,                \* where the running parseAllMutualConnections call is suspended
  outcomes,           \* responses the callers got since the latest session started
  calls,              \* history: number of parseAllMutualConnections calls made
  trace,              \* history: the events of the latest session
  warned,             \* the latest session logged a 'missing essential data' warning
  pageLoadTimer,      \* due time of the live fallback timer of waitForPageLoad
  document,           \* the document the content script runs in
  reply,              \* the latest result of a profile-page function of the parser
  nextButton,         \* the next-page button of the results page in the document
  notifications,      \* the notifications showNotification created, in order
  contents,           \* payload identity -> the payload object handed to addToQueue
  sends,              \* history: the calls of sendLinkedInDataToWebhooks
  linkedinDelay,      \* the 'Parsing delay (seconds)' setting of the options page
  pacing,             \* the waits of a session: where it waits, when it last parsed
  handlers,           \* the calls of the mutual-connections handlers, in call order
  tabs,               \* the parsing tabs that are open
  linkedinSessions,   \* Map sessionId -> {tabId, profileData, status}
  parsers,            \* the parser the message listener made for each parse request
  storedWebhooks,     \* the 'webhooks' list in chrome.storage.local
  menuItems,          \* the child items of the 'Send to Webhook' context menu
  menuRebuild,        \* the debounce timer of updateWebhookMenus and the rebuild it runs
  clicks              \* history: the clicks on child items and where each one sent

bgVars == <<webhookQueues, queueNotifications, timers, storageGets,
            intervals, clearTimers, shown, deliveries, nextPayload,
            sent, hist, rlHist, raised>>

queueVars == <<now, bgVars>>

sessionVars ==
  <<isProcessing, currentSession, run, outcomes, calls, trace, warned,
    pageLoadTimer>>

menuVars == <<storedWebhooks, menuItems, menuRebuild, clicks>>

listenerVars == <<parsers, menuVars>>

profileVars == <<document, reply, listenerVars>>

handlerVars == <<handlers, tabs, linkedinSessions>>

linkedinVars ==
  <<nextButton, notifications, contents, sends, linkedinDelay, pacing,
    handlerVars>>

vars == <<queueVars, sessionVars, profileVars, linkedinVars>>

(***************************************************************************)
(* Helpers over Maps (functions with a growing domain).                    *)
(***************************************************************************)
MapSet(m, k, v) == [x \in DOMAIN m \cup {k} |-> IF x = k THEN v ELSE m[x]]

MapDelete(m, k) == [x \in DOMAIN m \ {k} |-> m[x]]

\* a handle no live timer and no stored handle carries
FreshHandle(used) == CHOOSE n \in 1..(Cardinality(used) + 1) : n \notin used

UsedTimerHandles(wq, tm) ==
  {t.handle : t \in tm} \cup {wq[u].timer : u \in DOMAIN wq}

(***************************************************************************)
(* The background script's state, passed through the synchronous calls of  *)
(* one handler.                                                            *)
(***************************************************************************)
BgState ==
  [wq |-> webhookQueues, qn |-> queueNotifications, tm |-> timers,
   sg |-> storageGets, iv |-> intervals, ct |-> clearTimers, sh |-> shown,
   dl |-> deliveries, sent |-> sent]

\* clearQueueNotification(webhookUrl)
clearQueueNotification(S, url) ==
  IF url \in DOMAIN S.qn
  THEN [S EXCEPT !.iv = {i \in S.iv : i.id # S.qn[url].intervalId},
                 !.sh = S.sh \ {S.qn[url].notificationId},
                 !.qn = MapDelete(S.qn, url)]
  ELSE S

\* showQueueNotification(webhookUrl, webhookName), up to the storage read
showQueueNotification(S, url, payload, t) ==
  LET S1 == clearQueueNotification(S, url)
  IN [S1 EXCEPT !.sg = S1.sg \cup
        {[url |-> url, notificationId |-> <<url, t>>, payload |-> payload]}]

\* postToWebhookDirect(webhookUrl, payload, retryCount, webhookName): the fetch
postToWebhookDirect(dl, url, payload, retryCount) ==
  MapSet(dl, payload,
    [url |-> url, retryCount |-> retryCount, phase |-> "fetching", due |-> 0,
     attempts |-> (IF payload \in DOMAIN dl THEN dl[payload].attempts ELSE 0) + 1,
     results |-> IF payload \in DOMAIN dl THEN dl[payload].results ELSE <<>>,
     settledAt |-> IF payload \in DOMAIN dl THEN dl[payload].settledAt ELSE 0,
     retriedAt |-> IF payload \in DOMAIN dl THEN dl[payload].retriedAt ELSE <<>>,
     notifications |-> IF payload \in DOMAIN dl THEN dl[payload].notifications
                       ELSE <<>>])

\* queueData.queue.pop() in place of shift(): the newest entry leaves first
QueuePopLast(q) == [item |-> q[Len(q)], rest |-> SubSeq(q, 1, Len(q) - 1)]

\* queueData.queue.shift()
QueueShift(q) == [item |-> Head(q), rest |-> Tail(q)]

\* the elapsed milliseconds compared with the limit in seconds
NeedWaitSeconds(qd, t) ==
  qd.rateLimit > 0 /\ t - qd.lastSent < qd.rateLimit

\* queueData.rateLimit > 0 && timeSinceLastSent < rateLimitMs
NeedWait(qd, t) ==
  qd.rateLimit > 0 /\ t - qd.lastSent < qd.rateLimit * MsPerSecond

\* willBeQueued that looks at the queue length only
WillBeQueuedLengthOnly(qd, t) ==
  qd.rateLimit > 0 /\ Len(qd.queue) > 1

\* willBeQueued of addToQueue
WillBeQueued(qd, t) ==
  qd.rateLimit > 0 /\
  (Len(qd.queue) > 1 \/ t - qd.lastSent < qd.rateLimit * MsPerSecond)

\* a last-send timestamp shared by all webhooks
RecordSendShared(wq, url, rest, t) ==
  [u \in DOMAIN wq |->
     IF u = url THEN [wq[u] EXCEPT !.queue = rest, !.lastSent = t]
     ELSE [wq[u] EXCEPT !.lastSent = t]]

\* queueData.lastSent = now
RecordSend(wq, url, rest, t) ==
  [wq EXCEPT ![url].queue = rest, ![url].lastSent = t]

\* queueData.timer = setTimeout(() => processQueue(webhookUrl), delay)
SetQueueTimer(S, url, due) ==
  LET h == FreshHandle(UsedTimerHandles(S.wq, S.tm))
  IN [S EXCEPT !.tm = S.tm \cup {[handle |-> h, url |-> url, due |-> due]},
               !.wq[url].timer = h]

\* clearTimeout(queueData.timer)
ClearQueueTimer(S, url) ==
  [S EXCEPT !.tm = {x \in S.tm : x.handle # S.wq[url].timer}]

\* processQueue(webhookUrl)
RECURSIVE processQueue(_, _, _)
processQueue(S, url, t) ==
  IF url \notin DOMAIN S.wq \/ S.wq[url].queue = <<>>
  THEN S
  ELSE
    LET qd == S.wq[url]
        rateLimitMs == qd.rateLimit * MsPerSecond
    IN IF NeedWait(qd, t)
       THEN LET waitTime == rateLimitMs - (t - qd.lastSent)
                S1 == IF qd.timer # NoTimer THEN ClearQueueTimer(S, url) ELSE S
            IN SetQueueTimer(S1, url, t + waitTime)
       ELSE LET sh == QueueShift(qd.queue)
                S1 == [S EXCEPT !.wq = RecordSend(S.wq, url, sh.rest, t)]
                S2 == clearQueueNotification(S1, url)
                S3 == [S2 EXCEPT
                         !.dl = postToWebhookDirect(S2.dl, url, sh.item.payload,
                                                    InitialRetryCount),
                         !.sent[url] = Append(S2.sent[url],
                            [payload |-> sh.item.payload, at |-> t,
                             rateLimit |-> qd.rateLimit])]
            IN IF sh.rest # <<>>
               THEN IF qd.rateLimit > 0
                    THEN SetQueueTimer(S3, url, t + rateLimitMs)
                    ELSE processQueue(S3, url, t)
               ELSE S3

\* the state the background script is left in becomes the next state
Commit(S) ==
  /\ webhookQueues' = S.wq
  /\ queueNotifications' = S.qn
  /\ timers' = S.tm
  /\ storageGets' = S.sg
  /\ intervals' = S.iv
  /\ clearTimers' = S.ct
  /\ shown' = S.sh
  /\ deliveries' = S.dl
  /\ sent' = S.sent

(***************************************************************************)
(* The content script: LinkedInMutualConnectionsParser.                    *)
(***************************************************************************)
\* null where a string is expected
Null == "null"
\* null where an object is expected
NullObject == [null |-> TRUE]
\* querySelector found no element
NoElement == "no element"

\* the profileData a caller hands to parseAllMutualConnections
Profiles ==
  {[profileName |-> Null, profileUrl |-> "/in/source", encodedId |-> "E1"],
   [profileName |-> "Source", profileUrl |-> "/in/source", encodedId |-> Null]}

\* what the name and link selectors find in one result item
ItemElements ==
  {[name |-> "Ann", href |-> "/in/ann"],
   [name |-> NoElement, href |-> "/in/bob"],
   [name |-> "Cy", href |-> ""]}

Pages == UNION {[1..n -> ItemElements] : n \in 0..MaxItemsPerPage}

\* result items of the pages of a session that runs to completion: two
\* people, one of them with padded text, a name of white space only, and
\* items lacking the name element or the link's href
RecordElements ==
  {[name |-> "Ann", href |-> "/in/ann"],
   [name |-> " Bea ", href |-> "/in/bea"],
   [name |-> " ", href |-> "/in/cy"],
   [name |-> NoElement, href |-> "/in/dee"],
   [name |-> "Eve", href |-> ""]}

RecordPages == UNION {[1..n -> RecordElements] : n \in 0..MaxRecordsPerPage}

\* String.prototype.trim() on the texts above
Trim(text) ==
  CASE text = " Bea " -> "Bea"
    [] text = " " -> ""
    [] OTHER -> text

BotProtectionError == "Bot protection detected - aborting parsing"
SessionTimeoutError == "Session timeout exceeded"
InProgressError == "Parsing already in progress"
NextButtonError == "Next page button not found"

\* x || ''
OrEmpty(x) == IF x = Null THEN "" ELSE x

\* extractConnectionData(element) without the validation of the built record
extractConnectionDataUnvalidated(element) ==
  IF element.name = NoElement \/ element.href = NoElement
  THEN NullObject
  ELSE [name |-> Trim(element.name), profileUrl |-> element.href]

\* extractConnectionData(element)
extractConnectionData(element) ==
  IF element.name = NoElement \/ element.href = NoElement
  THEN NullObject
  ELSE LET connection == [name |-> Trim(element.name),
                           profileUrl |-> element.href]
       IN IF connection.name = "" \/ connection.profileUrl = ""
          THEN NullObject
          ELSE connection

\* the item loop of parseSearchResults: the non-null extractions, in order
RECURSIVE ExtractAll(_)
ExtractAll(items) ==
  IF items = <<>> THEN <<>>
  ELSE LET connection == extractConnectionData(Head(items))
       IN (IF connection = NullObject THEN <<>> ELSE <<connection>>)
          \o ExtractAll(Tail(items))

\* extractConnectionData logged one of its two warnings for some item
MissingEssential(items) ==
  \E i \in DOMAIN items : extractConnectionData(items[i]) = NullObject

\* parseSearchResults() that goes on to the items whatever detectBotProtection says
parseSearchResultsUnchecked(blocked, items) ==
  [threw |-> FALSE, error |-> Null, connections |-> ExtractAll(items),
   warned |-> MissingEssential(items)]

\* parseSearchResults(), given what detectBotProtection and the item
\* selectors see
parseSearchResults(blocked, items) ==
  IF blocked
  THEN [threw |-> TRUE, error |-> BotProtectionError, connections |-> <<>>,
        warned |-> FALSE]
  ELSE [threw |-> FALSE, error |-> Null, connections |-> ExtractAll(items),
        warned |-> MissingEssential(items)]

\* buildWebhookPayload() with the two counts taken from each other's source
buildWebhookPayloadSwapped(session, t) ==
  [profileViewed |->
     [name |-> OrEmpty(session.profileData.profileName),
      profileUrl |-> OrEmpty(session.profileData.profileUrl),
      encodedId |-> OrEmpty(session.profileData.encodedId)],
   mutualConnections |-> session.connections,
   totalCount |-> session.pagesProcessed,
   pagesScraped |-> Len(session.connections),
   extractionDuration |-> t - session.startTime,
   metadata |-> [timestamp |-> t, version |-> "2.0",
                 source |-> "linkedin-mutual-connections"]]

\* buildWebhookPayload()
buildWebhookPayload(session, t) ==
  [profileViewed |->
     [name |-> OrEmpty(session.profileData.profileName),
      profileUrl |-> OrEmpty(session.profileData.profileUrl),
      encodedId |-> OrEmpty(session.profileData.encodedId)],
   mutualConnections |-> session.connections,
   totalCount |-> Len(session.connections),
   pagesScraped |-> session.pagesProcessed,
   extractionDuration |-> t - session.startTime,
   metadata |-> [timestamp |-> t, version |-> "2.0",
                 source |-> "linkedin-mutual-connections"]]

\* url.match(/\/in\/([^/?]+)/) for the addresses of the model
extractLinkedInIdFromUrl(url) ==
  CASE url = "/in/ann" -> "ann"
    [] url = "/in/bea" -> "bea"
    [] url = "/in/source" -> "source"
    [] OTHER -> Null

\* the payload of one connection; connectionDetails copies fields of the
\* record that the model does not carry and is left out, as is the random
\* sessionId
BidirectionalPayload(sourceProfile, connection, t) ==
  [profileViewed |->
     [name |-> connection.name,
      profileUrl |-> connection.profileUrl,
      linkedinId |-> extractLinkedInIdFromUrl(connection.profileUrl)],
   mutualConnectionsWith |->
     [name |-> OrEmpty(sourceProfile.profileName),
      profileUrl |-> OrEmpty(sourceProfile.profileUrl),
      linkedinId |-> extractLinkedInIdFromUrl(OrEmpty(sourceProfile.profileUrl)),
      encodedId |-> OrEmpty(sourceProfile.encodedId)],
   metadata |-> [timestamp |-> t, version |-> "2.0",
                 source |-> "linkedin-bidirectional-connection",
                 relationType |-> "mutual_connection"]]

\* buildBidirectionalPayloads() without the push of the main payload
buildBidirectionalPayloadsOnly(session, t) ==
  [i \in DOMAIN session.connections |->
     BidirectionalPayload(session.profileData, session.connections[i], t)]

\* buildBidirectionalPayloads()
buildBidirectionalPayloads(session, t) ==
  <<buildWebhookPayload(session, t)>>
    \o [i \in DOMAIN session.connections |->
          BidirectionalPayload(session.profileData, session.connections[i], t)]

\* the parser's state, passed through the synchronous code of one step
ParserState ==
  [isProcessing |-> isProcessing, currentSession |-> currentSession,
   run |-> run, outcomes |-> outcomes, trace |-> trace]

Idle == [pc |-> "idle", currentPage |-> 0, checkedAt |-> 0]

\* the same throw placed inside the try block: finally clears the flag
ThrowInProgressInTry(P) ==
  [P EXCEPT !.isProcessing = FALSE,
            !.outcomes = Append(@, [success |-> FALSE, data |-> NullObject,
                                    error |-> InProgressError])]

\* the throw of line 639 leaves the method before its try block is entered
ThrowInProgress(P) ==
  [P EXCEPT !.outcomes = Append(@, [success |-> FALSE, data |-> NullObject,
                                    error |-> InProgressError])]

\* a throw inside a try block that has no finally: the flag stays set
AbortWithoutFinally(P, error, event) ==
  [P EXCEPT !.run = Idle,
            !.trace = Append(@, event),
            !.outcomes = Append(@, [success |-> FALSE, data |-> NullObject,
                                    error |-> error])]

\* a throw inside the try block: finally, then the listener's catch
Abort(P, error, event) ==
  [P EXCEPT !.isProcessing = FALSE,
            !.run = Idle,
            !.trace = Append(@, event),
            !.outcomes = Append(@, [success |-> FALSE, data |-> NullObject,
                                    error |-> error])]

\* return this.buildWebhookPayload(), finally, then the listener's then
Return(P, t) ==
  [P EXCEPT !.isProcessing = FALSE,
            !.run = Idle,
            !.trace = Append(@, "done"),
            !.outcomes = Append(@, [success |-> TRUE,
                            data |-> buildWebhookPayload(P.currentSession, t),
                            error |-> Null])]

\* the timeout test with its operands swapped
TimedOutSwapped(session, t) == session.startTime - t > sessionTimeout

\* Date.now() - this.currentSession.startTime > this.config.sessionTimeout
TimedOut(session, t) == t - session.startTime > sessionTimeout

\* the while loop with a condition that lets one page more through
LoopTopOneMore(P, page, t) ==
  IF ~(page <= maxPagesPerSession + 1)
  THEN Return(P, t)
  ELSE IF TimedOut(P.currentSession, t)
  THEN Abort(P, SessionTimeoutError, "timeout")
  ELSE [P EXCEPT !.run = [pc |-> "parseDelay", currentPage |-> page,
                          checkedAt |-> t]]

\* the head of the while loop, up to the first await of parseSearchResults
LoopTop(P, page, t) ==
  IF ~(page <= maxPagesPerSession)
  THEN Return(P, t)
  ELSE IF TimedOut(P.currentSession, t)
  THEN Abort(P, SessionTimeoutError, "timeout")
  ELSE [P EXCEPT !.run = [pc |-> "parseDelay", currentPage |-> page,
                          checkedAt |-> t]]

CommitParser(P) ==
  /\ isProcessing' = P.isProcessing
  /\ currentSession' = P.currentSession
  /\ run' = P.run
  /\ outcomes' = P.outcomes
  /\ trace' = P.trace

(***************************************************************************)
(* The profile-page functions of the parser, over a document.              *)
(***************************************************************************)
\* what a query answers when querySelector throws (a SyntaxError for a
\* selector list with a part the engine cannot parse)
Throws == [throws |-> TRUE]

\* the parts a selector list is made of; the last one is not valid CSS
CandidateSelectors == {".first", ".second", ">>bad"}

ValidSyntax(candidate) == candidate # ">>bad"

\* the elements of a document: the selector part each matches and its text
Elements ==
  [class : {".first", ".second"}, text : {"", " Bea ", "Ann"}]

ElementLists == UNION {[1..n -> Elements] : n \in 0..MaxElements}

\* the selector lists handed to the Field Extractor, as sequences of parts
SelectorLists ==
  UNION {[1..n -> CandidateSelectors] : n \in 1..MaxCandidates}

\* root.querySelector(selector): the first element of the root, in document
\* order, that matches some part of the list; throws when a part is invalid
querySelector(elements, selector) ==
  IF \E i \in DOMAIN selector : ~ValidSyntax(selector[i])
  THEN Throws
  ELSE LET hits == {k \in DOMAIN elements :
                      \E i \in DOMAIN selector : elements[k].class = selector[i]}
       IN IF hits = {}
          THEN NullObject
          ELSE elements[CHOOSE k \in hits : \A h \in hits : k <= h]

\* element ? (element.textContent || element.innerText || '').trim() : null,
\* and null from the catch block
TextOf(element) ==
  IF element = Throws THEN Null
  ELSE IF element = NullObject THEN Null
  ELSE Trim(element.text)

\* extractTextContent(selector) and extractElementText(parentElement, selector)
extractTextContent(elements, selector) ==
  TextOf(querySelector(elements, selector))

\* a number where null is possible too
Num(n) == [number |-> n]

\* undefined: a property that was never assigned
Undefined == "undefined"

\* the digit runs of the labels below, and Number.parseInt of them
IsDigits(word) == word \in {"1", "3", "5", "12", "500"}


parseInt(word) ==
  CASE word = "1" -> 1
    [] word = "3" -> 3
    [] word = "5" -> 5
    [] word = "12" -> 12
    [] word = "500" -> 500

\* the least index at which the test holds, 0 when there is none
FirstIndex(words, Test(_)) ==
  IF \E i \in DOMAIN words : Test(i)
  THEN CHOOSE i \in DOMAIN words : Test(i) /\ \A j \in 1..(i - 1) : ~Test(j)
  ELSE 0

\* text.match(/(\d+)\s+(?:other\s+)?mutual\s+<noun>/i): the first capture
\* group, Null when there is no match; nouns are the words that begin with
\* the noun of the expression
MatchMutual(words, nouns) ==
  LET At(i) ==
        /\ IsDigits(words[i])
        /\ \/ /\ i + 2 <= Len(words)
              /\ words[i + 1] = "mutual"
              /\ words[i + 2] \in nouns
           \/ /\ i + 3 <= Len(words)
              /\ words[i + 1] = "other"
              /\ words[i + 2] = "mutual"
              /\ words[i + 3] \in nouns
      i == FirstIndex(words, At)
  IN IF i = 0 THEN Null ELSE words[i]

\* text.match(/(\d+(?:,\d+)*)\s+<noun>/i), for labels without commas
MatchCount(words, nouns) ==
  LET At(i) == /\ IsDigits(words[i])
               /\ i + 1 <= Len(words)
               /\ words[i + 1] \in nouns
      i == FirstIndex(words, At)
  IN IF i = 0 THEN Null ELSE words[i]

\* el.textContent.match(/\d+.*connections?/i)
MentionsConnections(words) ==
  \E i, j \in DOMAIN words :
    i < j /\ IsDigits(words[i]) /\ words[j] \in {"connection", "connections"}

\* a test that lets the empty string through
TruthyOrEmpty(x) == x \notin {Null, Undefined}

\* a value that is not null, undefined or ''
Truthy(x) == x \notin {Null, Undefined, ""}

\* what the title, school or name selector and the company or degree
\* selector find in one list item of a profile section: the text of the
\* element, NoElement when there is none; the item has no other elements
ListItems ==
  [bold : {NoElement, " ", "Ann", " Bea "}, normal : {NoElement, "Ann"}]

\* what the query for a section finds: a throw, no section, or its items
Sections ==
  {Throws, NullObject}
    \cup {[items |-> l] :
            l \in UNION {[1..n -> ListItems] : n \in 0..MaxListItems}}

\* extractElementText(item, selector), given what the selector finds
ElementText(found) == IF found = NoElement THEN Null ELSE Trim(found)

HasTitle(experience) == Truthy(experience.title)

HasSchool(education) == Truthy(education.school)

HasName(skill) == Truthy(skill.name)

\* extractExperienceData()
extractExperienceData(section) ==
  IF section = Throws \/ section = NullObject THEN <<>>
  ELSE SelectSeq([i \in DOMAIN section.items |->
                    [title |-> ElementText(section.items[i].bold),
                     company |-> ElementText(section.items[i].normal),
                     duration |-> Null,
                     location |-> Null,
                     description |-> Null]],
                 HasTitle)

\* extractEducationData()
extractEducationData(section) ==
  IF section = Throws \/ section = NullObject THEN <<>>
  ELSE SelectSeq([i \in DOMAIN section.items |->
                    [school |-> ElementText(section.items[i].bold),
                     degree |-> ElementText(section.items[i].normal),
                     fieldOfStudy |-> Null,
                     duration |-> Null,
                     description |-> Null]],
                 HasSchool)

\* extractSkillsData()
extractSkillsData(section) ==
  IF section = Throws \/ section = NullObject THEN <<>>
  ELSE SelectSeq([i \in DOMAIN section.items |->
                    [name |-> ElementText(section.items[i].bold),
                     endorsements |-> Null]],
                 HasName)

\* a property that was never assigned, where a number or null is possible
UndefinedObject == [undefined |-> TRUE]

\* extractAttribute(selector, 'src'), given what the selector finds
AttributeOf(element) ==
  IF element = Throws THEN Null
  ELSE IF element = NullObject THEN Null
  ELSE element.src

\* profileUrl.match(/\/in\/([^/]+)/): the id of the addresses below
LinkedinIdOf(href) ==
  CASE href = "https://www.linkedin.com/in/bea/" -> "bea"
    [] OTHER -> Null

\* the connections count of lines 122-140: of the elements the selector
\* finds, the first whose text mentions connections gives the count
ConnectionsCountOf(found) ==
  LET Mentions(k) == MentionsConnections(found[k].words)
      k == FirstIndex(found, Mentions)
  IN IF k = 0 THEN Undefined
     ELSE MatchCount(found[k].words, {"connection", "connections"})

\* the followers count of lines 143-154
FollowersCountOf(element) ==
  IF element = NullObject THEN Undefined
  ELSE MatchCount(element.words, {"follower", "followers"})

\* parseProfilePage(): the profile record, or null from the catch block when
\* one of the queries made outside the helpers throws
parseProfilePage(d, t) ==
  IF \/ d.connectionsCount = Throws
     \/ d.followersCount = Throws
     \/ d.mutualConnectionsText = Throws
     \/ d.premiumIndicator = Throws
  THEN NullObject
  ELSE [name |-> TextOf(d.profileName),
        title |-> TextOf(d.profileTitle),
        location |-> TextOf(d.profileLocation),
        profileImageUrl |-> AttributeOf(d.profileImage),
        profileUrl |-> d.href,
        about |-> TextOf(d.aboutSection),
        extractedAt |-> t,
        connectionsCount |-> ConnectionsCountOf(d.connectionsCount.elements),
        followersCount |-> FollowersCountOf(d.followersCount),
        mutualConnectionsCount |->
          IF d.mutualConnectionsText = NullObject THEN UndefinedObject
          ELSE LET count == MatchMutual(d.mutualConnectionsText.words,
                                        {"connection", "connections"})
               IN IF count = Null THEN NullObject ELSE Num(parseInt(count)),
        mutualConnectionsUrl |->
          IF d.mutualConnectionsText = NullObject THEN Undefined
          ELSE d.mutualConnectionsText.href,
        isPremium |-> d.premiumIndicator # NullObject,
        linkedinId |-> LinkedinIdOf(d.href),
        experience |-> extractExperienceData(d.experienceSection),
        education |-> extractEducationData(d.educationSection),
        skills |-> extractSkillsData(d.skillsSection)]

\* URL.searchParams.get('facetConnectionOf') of the addresses below
FacetConnectionOf(href) ==
  CASE href = "https://www.linkedin.com/search/?facetConnectionOf=E1" -> "E1"
    [] OTHER -> Null

\* detectMutualConnections(), given what the selector of the link finds
detectMutualConnections(link) ==
  IF link = Throws \/ link = NullObject THEN NullObject
  ELSE IF link.href = "" THEN NullObject
  ELSE IF FacetConnectionOf(link.href) = Null THEN NullObject
  ELSE LET countMatch == MatchMutual(link.words, {"connections"})
       IN [searchUrl |-> link.href,
           encodedId |-> FacetConnectionOf(link.href),
           totalCount |-> IF countMatch = Null THEN NullObject
                          ELSE Num(parseInt(countMatch) + 2),
           text |-> link.words]

\* the labels of a shared-connections link, as their words
MutualLabels ==
  {<<"5", "other", "mutual", "connections">>,
   <<"ann", "and", "3", "other", "mutual", "connections">>,
   <<"12", "mutual", "connections">>,
   <<"1", "mutual", "connection">>,
   <<"ann", "and", "1", "other", "mutual", "connection">>,
   <<"mutual", "connections">>,
   <<"ann", "is", "a", "mutual", "connection">>,
   <<>>}

\* what the selector of the shared-connections link finds
MutualLinks ==
  {Throws, NullObject}
    \cup [words : MutualLabels,
          href : {"", "https://www.linkedin.com/search/?facetConnectionOf=E1",
                  "https://www.linkedin.com/search/?keywords=mutual"}]

\* what a selector that is read for its text finds
TextElements == {Throws, NullObject, [text |-> "Ann"], [text |-> " Bea "]}

\* a profile page on which every query finds its element
FullProfile ==
  [kind |-> "profile",
   href |-> "https://www.linkedin.com/in/bea/",
   profileName |-> [text |-> " Bea "],
   profileTitle |-> [text |-> "Ann"],
   profileLocation |-> [text |-> "Ann"],
   profileImage |-> [src |-> "https://media.licdn.com/bea.jpg"],
   aboutSection |-> [text |-> "Ann"],
   connectionsCount |->
     [elements |-> <<[words |-> <<"12", "followers">>],
                     [words |-> <<"500", "connections">>]>>],
   followersCount |-> [words |-> <<"12", "followers">>],
   mutualConnectionsText |->
     [words |-> <<"5", "other", "mutual", "connections">>,
      href |-> "https://www.linkedin.com/search/?facetConnectionOf=E1"],
   mutualConnectionsLink |->
     [words |-> <<"5", "other", "mutual", "connections">>,
      href |-> "https://www.linkedin.com/search/?facetConnectionOf=E1"],
   premiumIndicator |-> NullObject,
   experienceSection |-> NullObject,
   educationSection |-> NullObject,
   skillsSection |-> NullObject]

\* profile pages: the full one with one or two of its queries answered
\* otherwise
ProfilePages ==
  {[FullProfile EXCEPT !.profileName = a, !.aboutSection = b] :
     a \in TextElements, b \in TextElements}
  \cup {[FullProfile EXCEPT !.profileTitle = a, !.profileLocation = b] :
          a \in TextElements, b \in TextElements}
  \cup {[FullProfile EXCEPT !.profileImage = a, !.href = b] :
          a \in {Throws, NullObject, [src |-> Null]},
          b \in {"https://www.linkedin.com/feed/"}}
  \cup {[FullProfile EXCEPT !.connectionsCount = a, !.followersCount = b] :
          a \in {Throws, [elements |-> <<>>],
                 [elements |-> <<[words |-> <<"12", "followers">>]>>]},
          b \in {Throws, NullObject, [words |-> <<"500", "connections">>]}}
  \cup {[FullProfile EXCEPT !.mutualConnectionsText = a, !.premiumIndicator = b] :
          a \in MutualLinks, b \in {Throws, NullObject, [text |-> ""]}}
  \cup {[FullProfile EXCEPT !.mutualConnectionsLink = a] : a \in MutualLinks}
  \cup {[FullProfile EXCEPT !.experienceSection = a] : a \in Sections}
  \cup {[FullProfile EXCEPT !.educationSection = a] : a \in Sections}
  \cup {[FullProfile EXCEPT !.skillsSection = a] : a \in Sections}

(***************************************************************************)
(* Initial state: empty maps, nothing in flight.                           *)
(***************************************************************************)
QueueInit ==
  /\ now = StartTime
  /\ webhookQueues = <<>>
  /\ queueNotifications = <<>>
  /\ timers = {}
  /\ storageGets = {}
  /\ intervals = {}
  /\ clearTimers = {}
  /\ shown = {}
  /\ deliveries = <<>>
  /\ nextPayload = 1
  /\ sent = [u \in Urls |-> <<>>]
  /\ hist = <<>>
  /\ rlHist = [u \in Urls |-> {}]
  /\ raised = {}

SessionInit ==
  /\ isProcessing = FALSE
  /\ currentSession = NullObject
  /\ run = Idle
  /\ outcomes = <<>>
  /\ calls = 0
  /\ trace = <<>>
  /\ warned = FALSE
  /\ pageLoadTimer = NoTimer

\* a document without elements, nothing asked yet
BlankPage == [kind |-> "blank"]

ProfileInit ==
  /\ document = BlankPage
  /\ reply = NullObject
  /\ parsers = <<>>
  /\ storedWebhooks = <<>>
  /\ menuItems = {}
  /\ menuRebuild = [timer |-> FALSE, stage |-> "idle"]
  /\ clicks = <<>>

\* what the selector of the next-page button finds: no element, or a button
\* with its disabled property and its aria-disabled attribute (Null when the
\* attribute is absent)
NoButton == [button |-> FALSE]

NextButtons ==
  {NoButton}
    \cup [button : {TRUE}, disabled : BOOLEAN,
          ariaDisabled : {Null, "", "true", "false"}]

\* hasNextPage(), as the truth value its caller tests: an attribute value
\* other than the empty string is truthy, so !getAttribute(...) is false
hasNextPage(button) ==
  /\ button # NoButton
  /\ ~button.disabled
  /\ button.ariaDisabled \in {Null, ""}

\* min="1" max="10" of the linkedinDelay input (s)
LinkedinDelays == 1..10

\* no session is waiting
NotPacing == [pc |-> "idle", page |-> 0, parsedAt |-> 0, pause |-> 0]

\* the delays randomDelay(min, max) can pick:
\* Math.floor(Math.random() * (max - min + 1)) + min, any integer of
\* min..max; the ends and the middle are followed
randomDelay(min, max) == {min, (min + max) \div 2, max}

\* the time humanScroll takes: none when the button is close, else
\* scrollDuration
humanScroll ==
  {0, MinScrollDuration, MinScrollDuration + ScrollDurationSpan}

\* the time waitForPageLoad takes: up to its 10 s timeout
waitForPageLoad == {0, PageLoadTimeout}

LinkedinInit ==
  /\ nextButton = NoButton
  /\ notifications = <<>>
  /\ contents = <<>>
  /\ sends = <<>>
  /\ linkedinDelay = DefaultLinkedinDelay
  /\ pacing = NotPacing
  /\ handlers = <<>>
  /\ tabs = {}
  /\ linkedinSessions = <<>>

Init == QueueInit /\ SessionInit /\ ProfileInit /\ LinkedinInit

(***************************************************************************)
(* Handlers of the background script.                                      *)
(***************************************************************************)
\* addToQueue(webhookUrl, payload, webhookName, rateLimit)
addToQueue(S0, url, payload, rateLimit, t) ==
  LET wq1 == IF url \in DOMAIN S0.wq THEN S0.wq
             ELSE MapSet(S0.wq, url,
                    [queue |-> <<>>, lastSent |-> 0, timer |-> NoTimer,
                     rateLimit |-> rateLimit])
      wq2 == [wq1 EXCEPT ![url].rateLimit = rateLimit,
                         ![url].queue = Append(wq1[url].queue,
                            [payload |-> payload, timestamp |-> t])]
      S1 == [S0 EXCEPT !.wq = wq2]
      S2 == IF WillBeQueued(wq2[url], t)
            THEN showQueueNotification(S1, url, payload, t)
            ELSE S1
  IN processQueue(S2, url, t)

\* a call of addToQueue with a new payload
AddToQueue(url, rateLimit) ==
  /\ nextPayload <= MaxEntries
  /\ LET payload == nextPayload
         S3 == addToQueue(BgState, url, payload, rateLimit, now)
     IN /\ Commit(S3)
        /\ hist' = MapSet(hist, payload,
             [url |-> url, rateLimit |-> rateLimit,
              immediate |-> \E i \in 1..Len(S3.sent[url]) :
                               S3.sent[url][i].payload = payload,
              queued |-> \E g \in S3.sg : g.payload = payload])
  /\ nextPayload' = nextPayload + 1
  /\ rlHist' = [rlHist EXCEPT ![url] = @ \cup {rateLimit}]
  /\ UNCHANGED <<now, raised>>
  /\ UNCHANGED <<sessionVars, profileVars, linkedinVars>>

\* a webhook as the options page stores it; the endpoint B is rate limited
Webhook(url) ==
  [url |-> url, name |-> url, rateLimit |-> IF url = "B" THEN 2 ELSE 0]

\* data.webhooks of chrome.storage.local.get('webhooks'); the empty list
\* also stands for a missing key
WebhookLists ==
  UNION {[1..n -> {Webhook(url) : url \in Urls}] : n \in 0..MaxWebhooks}

\* settings.linkedinWebhooks
SendModes == {"all", "selected", "none"}

\* settings.selectedLinkedinWebhooks, as the set of its (0-based) indexes
SelectedIndexes == SUBSET {0, 1}

\* the data of a parse result handed to sendLinkedInDataToWebhooks
LinkedinData == {[totalCount |-> 0], [totalCount |-> 2]}

\* the background state the LinkedIn handlers work on
LinkedinState ==
  [bg |-> BgState, nextPayload |-> nextPayload,
   notifications |-> notifications, contents |-> contents]

\* showNotification(title, message, isSuccess)
showNotification(L, title, message) ==
  [L EXCEPT !.notifications = Append(@, [title |-> title, message |-> message])]

\* { ...linkedinData, timestamp, type, source }: the spread is kept as one
\* field
EnhancedPayload(linkedinData, t) ==
  [data |-> linkedinData, timestamp |-> t,
   type |-> "linkedin_mutual_connections",
   source |-> "chrome_extension_linkedin_parser"]

\* data.webhooks.filter((_, index) => selected.includes(index)) read with
\* the 1-based position in place of the 0-based index
FilterSelectedByPosition(webhooks, selected) ==
  LET Keep(i) == i \in selected
      F[i \in 0..Len(webhooks)] ==
        IF i = 0 THEN <<>>
        ELSE F[i - 1] \o (IF Keep(i) THEN <<webhooks[i]>> ELSE <<>>)
  IN F[Len(webhooks)]

\* data.webhooks.filter((_, index) => selected.includes(index))
FilterSelected(webhooks, selected) ==
  LET Keep(i) == (i - 1) \in selected
      F[i \in 0..Len(webhooks)] ==
        IF i = 0 THEN <<>>
        ELSE F[i - 1] \o (IF Keep(i) THEN <<webhooks[i]>> ELSE <<>>)
  IN F[Len(webhooks)]

\* for (const webhook of targetWebhooks) addToQueue(webhook.url,
\* enhancedPayload, webhook.name, webhook.rateLimit || 0): every call gets a
\* payload identity of its own
RECURSIVE EnqueueEach(_, _, _, _)
EnqueueEach(L, targetWebhooks, enhancedPayload, t) ==
  IF targetWebhooks = <<>> THEN L
  ELSE LET webhook == Head(targetWebhooks)
           L1 == [L EXCEPT
                    !.bg = addToQueue(L.bg, webhook.url, L.nextPayload,
                                      webhook.rateLimit, t),
                    !.contents = MapSet(L.contents, L.nextPayload,
                                        enhancedPayload),
                    !.nextPayload = L.nextPayload + 1]
       IN EnqueueEach(L1, Tail(targetWebhooks), enhancedPayload, t)

\* sendLinkedInDataToWebhooks(linkedinData), given what the two storage
\* reads answer
sendLinkedInDataToWebhooks(L, linkedinData, webhooks, mode, selected, t) ==
  IF webhooks = <<>>
  THEN showNotification(L, "LinkedIn Parser", "No webhooks configured")
  ELSE LET targetWebhooks ==
             IF mode = "all" THEN webhooks
             ELSE IF mode = "selected" THEN FilterSelected(webhooks, selected)
             ELSE <<>>
       IN IF targetWebhooks = <<>>
          THEN showNotification(L, "LinkedIn Parser", "No webhooks selected")
          ELSE showNotification(
                 EnqueueEach(L, targetWebhooks,
                             EnhancedPayload(linkedinData, t), t),
                 "LinkedIn Parser", "LinkedIn data queued")

CommitLinkedin(L) ==
  /\ Commit(L.bg)
  /\ nextPayload' = L.nextPayload
  /\ notifications' = L.notifications
  /\ contents' = L.contents

\* a call of sendLinkedInDataToWebhooks with the data of a parse result
SendLinkedInDataToWebhooks(linkedinData, webhooks, mode, selected) ==
  /\ Len(sends) < MaxSends
  /\ LET L == sendLinkedInDataToWebhooks(LinkedinState, linkedinData,
                                         webhooks, mode, selected, now)
     IN /\ CommitLinkedin(L)
        /\ sends' = Append(sends,
             [webhooks |-> webhooks, mode |-> mode, selected |-> selected,
              data |-> linkedinData,
              first |-> nextPayload, last |-> L.nextPayload - 1])
  /\ UNCHANGED <<now, hist, rlHist, raised>>
  /\ UNCHANGED <<sessionVars, profileVars, nextButton, linkedinDelay, pacing,
                 handlerVars>>

\* the LinkedIn data of parse results, sent under any stored settings
SendNext ==
  \E linkedinData \in LinkedinData, webhooks \in WebhookLists,
     mode \in SendModes, selected \in SelectedIndexes :
    SendLinkedInDataToWebhooks(linkedinData, webhooks, mode, selected)

SendSpec == Init /\ [][SendNext]_vars

\* the callback of setTimeout(() => processQueue(webhookUrl), delay)
QueueTimerFire(t) ==
  /\ t \in timers
  /\ now >= t.due
  /\ Commit(processQueue([BgState EXCEPT !.tm = timers \ {t}], t.url, now))
  /\ UNCHANGED <<now, nextPayload, hist, rlHist, raised>>
  /\ UNCHANGED <<sessionVars, profileVars, linkedinVars>>

\* the chrome.storage.local.get callback of showQueueNotification: the first
\* updateNotification(), setInterval, queueNotifications.set and the 60 s
\* auto-clear timer
StorageGetDone(g) ==
  /\ g \in storageGets
  /\ LET S0 == [BgState EXCEPT !.sg = storageGets \ {g}]
         empty == g.url \notin DOMAIN S0.wq \/ S0.wq[g.url].queue = <<>>
         S1 == IF empty THEN clearQueueNotification(S0, g.url)
               ELSE [S0 EXCEPT !.sh = S0.sh \cup {g.notificationId}]
         intervalId == FreshHandle({i.id : i \in S1.iv} \cup
                                   {S1.qn[u].intervalId : u \in DOMAIN S1.qn})
         S2 == [S1 EXCEPT
                  !.iv = S1.iv \cup
                    {[id |-> intervalId, url |-> g.url,
                      notificationId |-> g.notificationId,
                      period |-> notificationInterval * MsPerSecond,
                      started |-> now,
                      next |-> now + notificationInterval * MsPerSecond]},
                  !.qn = MapSet(S1.qn, g.url,
                           [notificationId |-> g.notificationId,
                            intervalId |-> intervalId]),
                  !.ct = S1.ct \cup
                    {[id |-> FreshHandle({c.id : c \in S1.ct}), url |-> g.url,
                      due |-> now + NotificationCeiling]}]
     IN /\ Commit(S2)
        /\ raised' = IF empty THEN raised ELSE raised \cup {g.payload}
  /\ UNCHANGED <<now, nextPayload, hist, rlHist>>
  /\ UNCHANGED <<sessionVars, profileVars, linkedinVars>>

\* the then-handler with a failure notification for every failed attempt
OnResponseNotifyEachFailure(d, ok, t) ==
  LET r == [d EXCEPT !.results = Append(@, IF ok THEN "ok" ELSE "http"),
                     !.settledAt = t]
  IN IF ~ok /\ d.retryCount > 0
     THEN [r EXCEPT !.phase = "retryWait", !.due = t + HttpRetryDelay,
                    !.notifications = Append(@, "Failed")]
     ELSE IF ok
     THEN [r EXCEPT !.phase = "success",
                    !.notifications = Append(@, "Success")]
     ELSE [r EXCEPT !.phase = "failed",
                    !.notifications = Append(@, "Failed")]

\* the then-handler with || in place of &&: retries whenever attempts are left
OnResponseRetryWhileLeft(d, ok, t) ==
  LET r == [d EXCEPT !.results = Append(@, IF ok THEN "ok" ELSE "http"),
                     !.settledAt = t]
  IN IF ~ok \/ d.retryCount > 0
     THEN [r EXCEPT !.phase = "retryWait", !.due = t + HttpRetryDelay]
     ELSE [r EXCEPT !.phase = "success",
                    !.notifications = Append(@, "Success")]

\* the then-handler of postToWebhookDirect's fetch
OnResponse(d, ok, t) ==
  LET r == [d EXCEPT !.results = Append(@, IF ok THEN "ok" ELSE "http"),
                     !.settledAt = t]
  IN IF ~ok /\ d.retryCount > 0
     THEN [r EXCEPT !.phase = "retryWait", !.due = t + HttpRetryDelay]
     ELSE IF ok
     THEN [r EXCEPT !.phase = "success",
                    !.notifications = Append(@, "Success")]
     ELSE [r EXCEPT !.phase = "failed",
                    !.notifications = Append(@, "Failed")]

\* the catch-handler with the retry delay of the then-handler
OnRejectAfterHttpDelay(d, t) ==
  LET r == [d EXCEPT !.results = Append(@, "net"), !.settledAt = t]
  IN IF d.retryCount > 0
     THEN [r EXCEPT !.phase = "retryWait", !.due = t + HttpRetryDelay]
     ELSE [r EXCEPT !.phase = "error",
                    !.notifications = Append(@, "Error")]

\* the catch-handler of postToWebhookDirect's fetch
OnReject(d, t) ==
  LET r == [d EXCEPT !.results = Append(@, "net"), !.settledAt = t]
  IN IF d.retryCount > 0
     THEN [r EXCEPT !.phase = "retryWait", !.due = t + NetworkRetryDelay]
     ELSE [r EXCEPT !.phase = "error",
                    !.notifications = Append(@, "Error")]

\* fetch(...).then(response => ...) of postToWebhookDirect
FetchResponse(payload, ok) ==
  /\ payload \in DOMAIN deliveries
  /\ deliveries[payload].phase = "fetching"
  /\ deliveries' = [deliveries EXCEPT
                      ![payload] = OnResponse(deliveries[payload], ok, now)]
  /\ UNCHANGED <<now, webhookQueues, queueNotifications, timers, storageGets,
                 intervals, clearTimers, shown, nextPayload, sent, hist,
                 rlHist, raised>>
  /\ UNCHANGED <<sessionVars, profileVars, linkedinVars>>

\* fetch(...).catch(error => ...) of postToWebhookDirect
FetchReject(payload) ==
  /\ payload \in DOMAIN deliveries
  /\ deliveries[payload].phase = "fetching"
  /\ deliveries' = [deliveries EXCEPT
                      ![payload] = OnReject(deliveries[payload], now)]
  /\ UNCHANGED <<now, webhookQueues, queueNotifications, timers, storageGets,
                 intervals, clearTimers, shown, nextPayload, sent, hist,
                 rlHist, raised>>
  /\ UNCHANGED <<sessionVars, profileVars, linkedinVars>>

\* the callback of setTimeout(() => postToWebhookDirect(..., retryCount - 1, ...))
RetryTimerFire(payload) ==
  /\ payload \in DOMAIN deliveries
  /\ deliveries[payload].phase = "retryWait"
  /\ now >= deliveries[payload].due
  /\ deliveries' = [postToWebhookDirect(deliveries, deliveries[payload].url,
                        payload, deliveries[payload].retryCount - 1)
                      EXCEPT ![payload].retriedAt = Append(@, now)]
  /\ UNCHANGED <<now, webhookQueues, queueNotifications, timers, storageGets,
                 intervals, clearTimers, shown, nextPayload, sent, hist,
                 rlHist, raised>>
  /\ UNCHANGED <<sessionVars, profileVars, linkedinVars>>

\* the clock advances, at most maxTicks times
ClockAdvance(maxTicks) ==
  /\ now + ClockStep <= StartTime + maxTicks * ClockStep
  /\ now' = now + ClockStep
  /\ UNCHANGED <<webhookQueues, queueNotifications, timers, storageGets,
                 intervals, clearTimers, shown, deliveries, nextPayload,
                 sent, hist, rlHist, raised>>
  /\ UNCHANGED <<sessionVars, profileVars, linkedinVars>>

Tick == ClockAdvance(MaxTicks)

NotificationTick == ClockAdvance(MaxNotificationTicks)

\* a tick of setInterval(updateNotification, updateIntervalMs): the closure's
\* updateNotification() for its own webhookUrl and notificationId
IntervalFire(i) ==
  /\ i \in intervals
  /\ now >= i.next
  /\ LET S0 == [BgState EXCEPT
                  !.iv = (intervals \ {i})
                           \cup {[i EXCEPT !.next = i.next + i.period]}]
         empty == i.url \notin DOMAIN S0.wq \/ S0.wq[i.url].queue = <<>>
     IN Commit(IF empty THEN clearQueueNotification(S0, i.url)
               ELSE [S0 EXCEPT !.sh = S0.sh \cup {i.notificationId}])
  /\ UNCHANGED <<now, nextPayload, hist, rlHist, raised>>
  /\ UNCHANGED <<sessionVars, profileVars, linkedinVars>>

\* the callback of setTimeout(() => clearQueueNotification(webhookUrl), 60000)
ClearTimerFire(c) ==
  /\ c \in clearTimers
  /\ now >= c.due
  /\ Commit(clearQueueNotification([BgState EXCEPT !.ct = clearTimers \ {c}],
                                   c.url))
  /\ UNCHANGED <<now, nextPayload, hist, rlHist, raised>>
  /\ UNCHANGED <<sessionVars, profileVars, linkedinVars>>

\* the times at which a timer of the background script is due
DueTimes ==
  {t.due : t \in timers} \cup {i.next : i \in intervals}
    \cup {c.due : c \in clearTimers}

\* time passes up to the next due timer; timers fire when they are due
RefreshTick ==
  /\ DueTimes # {}
  /\ \A d \in DueTimes : d > now
  /\ LET next == CHOOSE d \in DueTimes : \A e \in DueTimes : d <= e
     IN /\ next <= StartTime + RefreshHorizon
        /\ now' = next
  /\ UNCHANGED <<webhookQueues, queueNotifications, timers, storageGets,
                 intervals, clearTimers, shown, deliveries, nextPayload,
                 sent, hist, rlHist, raised>>
  /\ UNCHANGED <<sessionVars, profileVars, linkedinVars>>

QueueNext ==
  \/ \E url \in Urls, rateLimit \in RateLimits : AddToQueue(url, rateLimit)
  \/ \E t \in timers : QueueTimerFire(t)
  \/ Tick

QueueSpec == Init /\ [][QueueNext]_vars

\* the queue of one webhook, with the notification callbacks
NotificationNext ==
  \/ \E rateLimit \in RateLimits :
        nextPayload <= MaxNotified /\ AddToQueue("A", rateLimit)
  \/ \E t \in timers : QueueTimerFire(t)
  \/ \E g \in storageGets : StorageGetDone(g)
  \/ NotificationTick

NotificationSpec == Init /\ [][NotificationNext]_vars

\* the queue of one webhook with its refresh timers and auto-clear timers,
\* followed past the 60 s of the auto-clear
\* the rate limits of the endpoint while its refresh timers are followed
RefreshRateLimits == {0, 2}

RefreshNext ==
  \/ \E rateLimit \in RefreshRateLimits :
        nextPayload <= MaxRefreshed /\ AddToQueue("A", rateLimit)
  \/ \E t \in timers : QueueTimerFire(t)
  \/ \E g \in storageGets : StorageGetDone(g)
  \/ \E i \in intervals : IntervalFire(i)
  \/ \E c \in clearTimers : ClearTimerFire(c)
  \/ RefreshTick

RefreshSpec == Init /\ [][RefreshNext]_vars

\* webhook.rateLimit || 0, for a stored value that is a number or missing
OrZero(x) == IF x = UndefinedObject THEN 0 ELSE x.number

\* the webhooks chrome.storage.local can hold when initializeQueues reads it
StoredWebhooks ==
  [url : Urls, rateLimit : {UndefinedObject, Num(2)}]

StoredWebhookLists ==
  UNION {[1..n -> StoredWebhooks] : n \in 0..MaxWebhooks}

\* the same with a new queue record set for every stored webhook
initializeQueueReset(wq, webhook) ==
  MapSet(wq, webhook.url,
    [queue |-> <<>>, lastSent |-> 0, timer |-> NoTimer,
     rateLimit |-> OrZero(webhook.rateLimit)])

\* the body of the forEach of initializeQueues, for one stored webhook
initializeQueue(wq, webhook) ==
  IF webhook.url \notin DOMAIN wq
  THEN MapSet(wq, webhook.url,
         [queue |-> <<>>, lastSent |-> 0, timer |-> NoTimer,
          rateLimit |-> OrZero(webhook.rateLimit)])
  ELSE [wq EXCEPT ![webhook.url].rateLimit = OrZero(webhook.rateLimit)]

\* data.webhooks.forEach(...)
RECURSIVE initializeQueues(_, _)
initializeQueues(wq, webhooks) ==
  IF webhooks = <<>> THEN wq
  ELSE initializeQueues(initializeQueue(wq, Head(webhooks)), Tail(webhooks))

\* the chrome.storage.local.get callback of initializeQueues
InitializeQueues(webhooks) ==
  /\ webhookQueues' = initializeQueues(webhookQueues, webhooks)
  /\ UNCHANGED <<now, queueNotifications, timers, storageGets, intervals,
                 clearTimers, shown, deliveries, nextPayload, sent, hist,
                 rlHist, raised>>
  /\ UNCHANGED <<sessionVars, profileVars, linkedinVars>>

\* a queue timer that is due fires
QueueTimerStep == \E t \in timers : QueueTimerFire(t)

\* the queue of one webhook with the rate limits rewritten from storage
\* while entries wait; timers fire and time passes
DrainNext ==
  \/ \E rateLimit \in RateLimits :
        nextPayload <= MaxDrained /\ AddToQueue("A", rateLimit)
  \/ \E webhooks \in StoredWebhookLists : InitializeQueues(webhooks)
  \/ QueueTimerStep
  \/ RefreshTick

DrainSpec ==
  /\ Init
  /\ [][DrainNext]_vars
  /\ WF_vars(QueueTimerStep)
  /\ WF_vars(RefreshTick)

(***************************************************************************)
(* Properties of the delivery queue.                                       *)
(***************************************************************************)
SentPayloads(u) == {sent[u][i].payload : i \in 1..Len(sent[u])}

PendingPayloads(u) ==
  IF u \in DOMAIN webhookQueues
  THEN {webhookQueues[u].queue[i].payload : i \in 1..Len(webhookQueues[u].queue)}
  ELSE {}

\* C1: per endpoint, entries get their first dispatch in the order in which
\* addToQueue enqueued them (payloads are numbered in enqueue order): the
\* dispatch log of an endpoint is increasing, and no entry is dispatched
\* while an entry enqueued earlier to the same endpoint is still undispatched.
FifoDispatch ==
  \A u \in Urls :
    /\ \A i, j \in 1..Len(sent[u]) :
         i < j => sent[u][i].payload < sent[u][j].payload
    /\ \A p, q \in DOMAIN hist :
         (hist[p].url = u /\ hist[q].url = u /\ p < q /\ q \in SentPayloads(u))
           => p \in SentPayloads(u)

\* three entries of one rate-limited endpoint were dispatched, two of them
\* after having waited in the queue
FifoWitness ==
  \E u \in Urls :
    /\ Len(sent[u]) = 3
    /\ webhookQueues[u].rateLimit > 0
    /\ \E p, q \in SentPayloads(u) :
         p # q /\ ~hist[p].immediate /\ ~hist[q].immediate

\* C2: on an endpoint whose interval was I > 0 at every addToQueue, the send
\* timestamps of successive dispatches are at least I seconds apart.
MinSendInterval ==
  \A u \in Urls : \A I \in RateLimits \ {0} :
    rlHist[u] = {I} =>
      \A k \in 1..(Len(sent[u]) - 1) :
        sent[u][k + 1].at - sent[u][k].at >= I * MsPerSecond

\* three entries of an endpoint with a constant interval went out, the
\* second and third after waiting: at t, at least t + I and at least t + 2I
MinSendIntervalWitness ==
  \E u \in Urls : \E I \in RateLimits \ {0} :
    /\ rlHist[u] = {I}
    /\ Len(sent[u]) = 3
    /\ hist[sent[u][1].payload].immediate
    /\ ~hist[sent[u][2].payload].immediate
    /\ ~hist[sent[u][3].payload].immediate
    /\ sent[u][3].at >= sent[u][1].at + 2 * I * MsPerSecond

\* what belongs to one endpoint
EndpointView(u) ==
  [queueData |-> IF u \in DOMAIN webhookQueues THEN <<webhookQueues[u]>> ELSE <<>>,
   timers |-> {t \in timers : t.url = u},
   notification |-> IF u \in DOMAIN queueNotifications
                    THEN <<queueNotifications[u]>> ELSE <<>>,
   sent |-> sent[u]]

\* a call of addToQueue or processQueue for endpoint w
OnEndpoint(w) ==
  \/ \E rateLimit \in RateLimits : AddToQueue(w, rateLimit)
  \/ \E t \in timers : t.url = w /\ QueueTimerFire(t)

\* C5: a call of addToQueue or processQueue for endpoint w leaves the queue,
\* lastSent, rate limit, timers and dispatch log of every other endpoint as
\* they were, and it dispatches an entry of w exactly when w has an entry and
\* w's own interval (as set by the call) has elapsed since w's own last send.
EndpointsIndependent ==
  [][\A w \in Urls :
       OnEndpoint(w) =>
         /\ \A u \in Urls \ {w} : EndpointView(u)' = EndpointView(u)
         /\ LET lastSent == IF w \in DOMAIN webhookQueues
                            THEN webhookQueues[w].lastSent ELSE 0
                rateLimit == webhookQueues'[w].rateLimit
                hadEntry == PendingPayloads(w) # {} \/ nextPayload' # nextPayload
            IN (Len(sent'[w]) > Len(sent[w]))
                 <=> (hadEntry /\ ~(rateLimit > 0 /\
                                    now - lastSent < rateLimit * MsPerSecond))
    ]_vars

\* an entry of one endpoint was dispatched although an entry enqueued earlier
\* to the other endpoint is still waiting for that endpoint's interval
EndpointsIndependentWitness ==
  \E u, w \in Urls :
    /\ u # w
    /\ \E p \in PendingPayloads(u), q \in SentPayloads(w) : p < q
    /\ NeedWait(webhookQueues[u], now)

\* the chrome.storage read of payload p's showQueueNotification has completed
CallbackDone(p) == \A g \in storageGets : g.payload # p

\* C6: addToQueue calls showQueueNotification for an entry exactly when the
\* same call did not dispatch that entry; an entry dispatched by its own call,
\* and any entry enqueued with interval 0, gets none.  A queued notification
\* is only ever created for an entry addToQueue asked one for, and it is
\* created when the settings read completes unless the entry has left the
\* queue by then.
QueuedNotificationIffNotImmediate ==
  \A p \in DOMAIN hist :
    /\ hist[p].queued <=> ~hist[p].immediate
    /\ hist[p].rateLimit = 0 => (hist[p].immediate /\ ~hist[p].queued)
    /\ p \in raised => hist[p].queued
    /\ (hist[p].queued /\ CallbackDone(p) /\ p \notin raised)
         => p \in SentPayloads(hist[p].url)

\* one entry went out at once without a notification, one waited behind the
\* interval and one behind a pending entry, both with a notification created
QueuedNotificationWitness ==
  \E p, q, r \in DOMAIN hist :
    /\ hist[p].immediate /\ ~hist[p].queued /\ hist[p].rateLimit > 0
    /\ p < q /\ q < r
    /\ hist[q].queued /\ q \in raised
    /\ hist[r].queued /\ r \in raised
    /\ hist[p].url = hist[q].url /\ hist[q].url = hist[r].url

(***************************************************************************)
(* Properties of a delivery.                                               *)
(***************************************************************************)
Failed3(d) ==
  Len(d.results) >= 3 /\ \A i \in 1..3 : d.results[i] # "ok"

\* C3: a delivery makes at most 3 POST attempts: once its first 3 attempts
\* have failed, permanent failure is reported and there is no 4th attempt.
AtMostThreeAttempts ==
  \A p \in DOMAIN deliveries :
    /\ deliveries[p].attempts <= 3
    /\ Failed3(deliveries[p]) =>
         /\ deliveries[p].phase \in {"failed", "error"}
         /\ deliveries[p].notifications # <<>>

\* C4: a delivery whose first two attempts failed and whose third attempt
\* succeeded ends as a success: one success notification, no failure
\* notification, and exactly 3 POST attempts.
ThirdAttemptSucceeds ==
  \A p \in DOMAIN deliveries :
    LET d == deliveries[p]
    IN (Len(d.results) = 3 /\ d.results[1] # "ok" /\ d.results[2] # "ok"
        /\ d.results[3] = "ok")
         => /\ d.phase = "success"
            /\ d.notifications = <<"Success">>
            /\ d.attempts = 3

\* a delivery failed once with an HTTP status, once with a network error,
\* and then succeeded
ThirdAttemptSucceedsWitness ==
  \E p \in DOMAIN deliveries :
    /\ deliveries[p].results = <<"http", "net", "ok">>
    /\ deliveries[p].phase = "success"

\* the deliveries of the first payloads, sent to webhooks without a rate
\* limit, with their responses
DeliveryNext ==
  \/ \E url \in Urls : nextPayload <= MaxDeliveries /\ AddToQueue(url, 0)
  \/ \E payload \in DOMAIN deliveries, ok \in BOOLEAN : FetchResponse(payload, ok)
  \/ \E payload \in DOMAIN deliveries : FetchReject(payload)
  \/ \E payload \in DOMAIN deliveries : RetryTimerFire(payload)
  \/ Tick

DeliverySpec == Init /\ [][DeliveryNext]_vars

\* deliveries to one rate-limited endpoint: the queue's dispatches and the
\* retries of postToWebhookDirect
RetryNext ==
  \/ nextPayload <= MaxRetried /\ AddToQueue("A", RetryRateLimit)
  \/ \E t \in timers : QueueTimerFire(t)
  \/ \E payload \in DOMAIN deliveries, ok \in BOOLEAN : FetchResponse(payload, ok)
  \/ \E payload \in DOMAIN deliveries : FetchReject(payload)
  \/ \E payload \in DOMAIN deliveries : RetryTimerFire(payload)
  \/ Tick

RetrySpec == Init /\ [][RetryNext]_vars

(***************************************************************************)
(* Steps of the content script: a call of parseAllMutualConnections and    *)
(* the continuations of its awaits.                                        *)
(***************************************************************************)
\* parseAllMutualConnections(profileData), up to its first await
ParseAllMutualConnections(profileData) ==
  /\ calls < MaxCalls
  /\ calls' = calls + 1
  /\ IF isProcessing
     THEN CommitParser(ThrowInProgress(ParserState))
     ELSE CommitParser(LoopTop(
            [ParserState EXCEPT
               !.isProcessing = TRUE,
               !.currentSession = [profileData |-> profileData,
                                   startTime |-> now,
                                   connections |-> <<>>,
                                   pagesProcessed |-> 0],
               !.outcomes = <<>>,
               !.trace = <<"start">>],
            1, now))
  /\ warned' = (isProcessing /\ warned)
  /\ UNCHANGED <<linkedinVars, profileVars, now, bgVars, pageLoadTimer>>

\* parseSearchResults() after its randomDelay, then the push, the page
\* counter and hasNextPage()
ParsePage(blocked, items, hasNext) ==
  /\ run.pc = "parseDelay"
  /\ LET P == ParserState
         r == parseSearchResults(blocked, items)
         P1 == [P EXCEPT
                  !.currentSession.connections = @ \o r.connections,
                  !.currentSession.pagesProcessed = @ + 1,
                  !.trace = Append(@, "parse")]
     IN /\ CommitParser(
             IF r.threw THEN Abort(P, r.error, "blocked")
             ELSE IF ~hasNext THEN Return(P1, now)
             ELSE [P1 EXCEPT !.run.pc = "pageDelay"])
        /\ warned' = (warned \/ r.warned)
  /\ UNCHANGED <<linkedinVars, profileVars, now, bgVars, calls, pageLoadTimer>>

\* navigateToNextPage() after the page delay, up to waitForPageLoad
NavigateToNextPage(buttonFound) ==
  /\ run.pc = "pageDelay"
  /\ CommitParser(
       IF ~buttonFound
       THEN Abort(ParserState, NextButtonError, "navigationError")
       ELSE [ParserState EXCEPT !.run.pc = "pageLoad",
                                !.trace = Append(@, "navigate")])
  /\ pageLoadTimer' = IF buttonFound THEN now + PageLoadTimeout ELSE NoTimer
  /\ UNCHANGED <<linkedinVars, profileVars, now, bgVars, calls, warned>>

\* the MutationObserver callback finds the results container: clearTimeout,
\* disconnect, resolve; then currentPage++ and the head of the loop
ResultsAppeared ==
  /\ run.pc = "pageLoad"
  /\ CommitParser(LoopTop(ParserState, run.currentPage + 1, now))
  /\ pageLoadTimer' = NoTimer
  /\ UNCHANGED <<linkedinVars, profileVars, now, bgVars, calls, warned>>

\* a fallback timer that rejects the promise of waitForPageLoad
PageLoadTimerRejects ==
  /\ run.pc = "pageLoad"
  /\ now >= pageLoadTimer
  /\ CommitParser(Abort(ParserState, "Page load timeout", "navigationError"))
  /\ pageLoadTimer' = NoTimer
  /\ UNCHANGED <<linkedinVars, profileVars, now, bgVars, calls, warned>>

\* the fallback timer of waitForPageLoad fires: resolve; then currentPage++
\* and the head of the loop
PageLoadTimerFire ==
  /\ run.pc = "pageLoad"
  /\ now >= pageLoadTimer
  /\ CommitParser(LoopTop(ParserState, run.currentPage + 1, now))
  /\ pageLoadTimer' = NoTimer
  /\ UNCHANGED <<linkedinVars, profileVars, now, bgVars, calls, warned>>

\* waitForPageLoad() resolves, one way or the other
PageLoaded == ResultsAppeared \/ PageLoadTimerFire

\* time passes while waitForPageLoad waits, up to the moment its fallback
\* timer is due
PageLoadTick ==
  /\ run.pc = "pageLoad"
  /\ now < pageLoadTimer
  /\ now' = IF now + PageLoadClockStep > pageLoadTimer
            THEN pageLoadTimer
            ELSE now + PageLoadClockStep
  /\ UNCHANGED <<bgVars, sessionVars, profileVars, linkedinVars>>

\* the clock advances while the content script is suspended
SessionTick ==
  /\ now + SessionClockStep <= StartTime + MaxSessionTicks * SessionClockStep
  /\ now' = now + SessionClockStep
  /\ UNCHANGED <<bgVars, sessionVars, profileVars, linkedinVars>>

SessionNext ==
  \/ \E profileData \in Profiles : ParseAllMutualConnections(profileData)
  \/ \E blocked \in BOOLEAN, items \in Pages, hasNext \in BOOLEAN :
        ParsePage(blocked, items, hasNext)
  \/ \E buttonFound \in BOOLEAN : NavigateToNextPage(buttonFound)
  \/ PageLoaded
  \/ SessionTick

SessionSpec == Init /\ [][SessionNext]_vars

(***************************************************************************)
(* Properties of the session collector.                                    *)
(***************************************************************************)
Last(q) == q[Len(q)]

Rejection(error) == [success |-> FALSE, data |-> NullObject, error |-> error]

\* C7: a call of parseAllMutualConnections made while a session is running
\* is rejected with 'Parsing already in progress' and leaves the running
\* session's flag, records, page counter and position untouched.
BusyCallRejected ==
  [][((\E profileData \in Profiles : ParseAllMutualConnections(profileData))
      /\ isProcessing)
       => /\ isProcessing'
          /\ currentSession' = currentSession
          /\ run' = run
          /\ trace' = trace
          /\ outcomes' = Append(outcomes, Rejection(InProgressError))
    ]_vars

\* a session that has collected records is still running after a second
\* call was rejected
BusyCallRejectedWitness ==
  /\ isProcessing
  /\ run.pc # "idle"
  /\ currentSession.pagesProcessed >= 1
  /\ Len(currentSession.connections) >= 1
  /\ outcomes # <<>>
  /\ Last(outcomes) = Rejection(InProgressError)

AbortEvents == {"blocked", "timeout", "navigationError"}

\* C8: when a session aborts after at least one page was parsed, the records
\* collected before the abort are returned to the caller.
PartialResultsReturned ==
  (/\ run.pc = "idle"
   /\ trace # <<>>
   /\ Last(trace) \in AbortEvents
   /\ currentSession.pagesProcessed >= 1)
    => /\ Last(outcomes).data # NullObject
       /\ Last(outcomes).data.mutualConnections = currentSession.connections

\* C9: when detectBotProtection reports a block at a page's check, the
\* session ends there with the bot-protection error: nothing is added to the
\* records or the page counter, and the call is no longer suspended anywhere
\* (no retry of the check, no navigation, no further parse).
BlockAborts ==
  [][(\E items \in Pages, hasNext \in BOOLEAN : ParsePage(TRUE, items, hasNext))
       => /\ run' = Idle
          /\ ~isProcessing'
          /\ outcomes' = Append(outcomes, Rejection(BotProtectionError))
          /\ currentSession' = currentSession
          /\ trace' = Append(trace, "blocked")
    ]_vars

\* a session was blocked on a page it had navigated to, after parsing a page
BlockAbortsWitness ==
  /\ run = Idle
  /\ trace # <<>>
  /\ Last(trace) = "blocked"
  /\ \E i, j \in 1..Len(trace) : i < j /\ trace[i] = "parse" /\ trace[j] = "navigate"
  /\ Last(outcomes) = Rejection(BotProtectionError)

\* C10: at the check that opens a page iteration, a session whose elapsed
\* time exceeds the session timeout ends with 'Session timeout exceeded'
\* without parsing or navigating further; a page parse is only begun when
\* the elapsed time at the check is within the timeout.
TimeoutAborts ==
  [][(PageLoaded /\ run.currentPage + 1 <= maxPagesPerSession)
       => /\ (now - currentSession.startTime > sessionTimeout)
               => /\ run' = Idle
                  /\ ~isProcessing'
                  /\ outcomes' = Append(outcomes, Rejection(SessionTimeoutError))
                  /\ currentSession' = currentSession
                  /\ trace' = Append(trace, "timeout")
          /\ (run'.pc = "parseDelay")
               => now - currentSession.startTime <= sessionTimeout
    ]_vars

\* a session timed out at the check before its second or a later page
TimeoutAbortsWitness ==
  /\ run = Idle
  /\ trace # <<>>
  /\ Last(trace) = "timeout"
  /\ currentSession.pagesProcessed >= 1
  /\ Last(outcomes) = Rejection(SessionTimeoutError)

\* C11: in every session the number of pages parsed never exceeds the page
\* cap, however often the site offers a next page.
PageCapRespected ==
  currentSession # NullObject
    => currentSession.pagesProcessed <= maxPagesPerSession

\* a session ended at the cap: its last page still offered a next page, the
\* session navigated to it and then returned
PageCapWitness ==
  /\ run = Idle
  /\ Len(trace) >= 2
  /\ Last(trace) = "done"
  /\ trace[Len(trace) - 1] = "navigate"
  /\ currentSession.pagesProcessed = maxPagesPerSession
  /\ Last(outcomes).success

\* parser.buildBidirectionalPayloads() in the listener's then, after the
\* session of this parser has returned
BuildBidirectionalPayloads ==
  /\ run = Idle
  /\ ~isProcessing
  /\ currentSession # NullObject
  /\ outcomes # <<>>
  /\ Last(outcomes).success
  /\ reply' = [call |-> "buildBidirectionalPayloads",
               data |-> buildBidirectionalPayloads(currentSession, now)]
  /\ UNCHANGED <<document, listenerVars, queueVars, sessionVars, linkedinVars>>

(***************************************************************************)
(* One session of a fresh parser that is neither blocked nor timed out,    *)
(* over pages whose items name two different people, on a site that shows  *)
(* a bounded number of result items.                                       *)
(***************************************************************************)
CompletionNext ==
  \/ \E profileData \in Profiles :
        calls = 0 /\ ParseAllMutualConnections(profileData)
  \/ \E items \in RecordPages, hasNext \in BOOLEAN :
        /\ run.pc = "parseDelay"
        /\ Len(currentSession.connections) + Len(items) <= MaxRecords
        /\ ParsePage(FALSE, items, hasNext)
  \/ NavigateToNextPage(TRUE)
  \/ ResultsAppeared
  \/ BuildBidirectionalPayloads

CompletionSpec == Init /\ [][CompletionNext]_vars

\* what Math.random().toString(36).slice(2, 11) can give
RandomParts == {"k3x9q7m2a", "z8c1v5b0n"}

\* generateSessionId(): `${Date.now()}-${random part}`
generateSessionId(t, random) == <<t, random>>

\* a payload with metadata.sessionId set to the id generated for it
WithSessionId(payload, sessionId) ==
  [payload EXCEPT !.metadata =
     [f \in DOMAIN payload.metadata \cup {"sessionId"} |->
        IF f = "sessionId" THEN sessionId ELSE payload.metadata[f]]]

\* buildBidirectionalPayloads() with the sessionId each payload is given:
\* buildWebhookPayload() and every per-connection payload call
\* this.generateSessionId() themselves
buildPayloadsWithSessionIds(session, t, randoms) ==
  LET payloads == buildBidirectionalPayloads(session, t)
  IN [i \in DOMAIN payloads |->
        WithSessionId(payloads[i], generateSessionId(t, randoms[i]))]

\* parser.buildBidirectionalPayloads() after the session has returned, with
\* the random parts its generateSessionId calls draw
BuildSessionPayloads(randoms) ==
  /\ run = Idle
  /\ ~isProcessing
  /\ currentSession # NullObject
  /\ outcomes # <<>>
  /\ Last(outcomes).success
  /\ reply' = [call |-> "sessionPayloads",
               data |-> buildPayloadsWithSessionIds(currentSession, now,
                                                    randoms)]
  /\ UNCHANGED <<document, listenerVars, queueVars, sessionVars, linkedinVars>>

\* one session that runs to completion, and the payloads built from it
SessionIdNext ==
  \/ \E profileData \in Profiles :
        calls = 0 /\ ParseAllMutualConnections(profileData)
  \/ \E items \in RecordPages, hasNext \in BOOLEAN :
        /\ run.pc = "parseDelay"
        /\ Len(currentSession.connections) + Len(items) <= MaxRecords
        /\ ParsePage(FALSE, items, hasNext)
  \/ NavigateToNextPage(TRUE)
  \/ ResultsAppeared
  \/ /\ currentSession # NullObject
     /\ reply = NullObject
     /\ \E randoms \in
             [1..(Len(currentSession.connections) + 1) -> RandomParts] :
          BuildSessionPayloads(randoms)

SessionIdSpec == Init /\ [][SessionIdNext]_vars

\* the results page shows its pagination while the parser waits to parse it
RenderPagination(button) ==
  /\ run.pc = "parseDelay"
  /\ nextButton # button
  /\ nextButton' = button
  /\ UNCHANGED <<queueVars, sessionVars, profileVars>>
  /\ UNCHANGED <<notifications, contents, sends, linkedinDelay, pacing,
                 handlerVars>>

\* the result items of the pages of a session whose pagination is followed
PaginationPages == {<<>>, <<[name |-> "Ann", href |-> "/in/ann"]>>}

\* a session over pages with any pagination button
PaginationNext ==
  \/ \E profileData \in Profiles :
        calls = 0 /\ ParseAllMutualConnections(profileData)
  \/ \E button \in NextButtons : RenderPagination(button)
  \/ \E items \in PaginationPages :
        ParsePage(FALSE, items, hasNextPage(nextButton))
  \/ NavigateToNextPage(nextButton # NoButton)
  \/ ResultsAppeared

PaginationSpec == Init /\ [][PaginationNext]_vars

\* the page drops its next-page button while the parser waits out the
\* delay between hasNextPage() and navigateToNextPage()
PaginationRemoved ==
  /\ run.pc = "pageDelay"
  /\ nextButton # NoButton
  /\ nextButton' = NoButton
  /\ UNCHANGED <<queueVars, sessionVars, profileVars>>
  /\ UNCHANGED <<notifications, contents, sends, linkedinDelay, pacing,
                 handlerVars>>

\* a session over pages whose pagination can go away during the page delay
RaceNext ==
  \/ \E profileData \in Profiles :
        calls = 0 /\ ParseAllMutualConnections(profileData)
  \/ \E button \in NextButtons : RenderPagination(button)
  \/ PaginationRemoved
  \/ \E items \in PaginationPages :
        ParsePage(FALSE, items, hasNextPage(nextButton))
  \/ NavigateToNextPage(nextButton # NoButton)
  \/ ResultsAppeared

RaceSpec == Init /\ [][RaceNext]_vars

\* the user changes the parsing delay on the options page
SetLinkedinDelay(seconds) ==
  /\ pacing = NotPacing
  /\ linkedinDelay # seconds
  /\ linkedinDelay' = seconds
  /\ UNCHANGED <<queueVars, sessionVars, profileVars>>
  /\ UNCHANGED <<nextButton, notifications, contents, sends, pacing,
                 handlerVars>>

\* a wait of the session ends after the given time
Wait(from, delay, to) ==
  /\ pacing.pc = from
  /\ now' = now + delay
  /\ pacing' = [pacing EXCEPT !.pc = to]
  /\ UNCHANGED <<bgVars, sessionVars, profileVars>>
  /\ UNCHANGED <<nextButton, notifications, contents, sends, linkedinDelay,
                 handlerVars>>

\* parseAllMutualConnections reaches the first parseSearchResults()
StartPacedSession ==
  /\ pacing = NotPacing
  /\ pacing' = [pc |-> "parseDelay", page |-> 1, parsedAt |-> 0, pause |-> 0]
  /\ UNCHANGED <<queueVars, sessionVars, profileVars>>
  /\ UNCHANGED <<nextButton, notifications, contents, sends, linkedinDelay,
                 handlerVars>>

\* await this.antiDetection.randomDelay() of parseSearchResults, then the
\* page is parsed and hasNextPage() is asked
ParseDelayElapses(delay, hasNext) ==
  /\ pacing.pc = "parseDelay"
  /\ now' = now + delay
  /\ pacing' = [pc |-> IF hasNext /\ pacing.page < MaxPacedPages
                       THEN "pageDelay" ELSE "done",
                page |-> pacing.page,
                parsedAt |-> now',
                pause |-> IF pacing.page > 1 THEN now' - pacing.parsedAt
                          ELSE pacing.pause]
  /\ UNCHANGED <<bgVars, sessionVars, profileVars>>
  /\ UNCHANGED <<nextButton, notifications, contents, sends, linkedinDelay,
                 handlerVars>>

\* await this.antiDetection.randomDelay(minPageDelay, maxPageDelay)
PageDelayElapses(delay) == Wait("pageDelay", delay, "scroll")

\* await this.antiDetection.humanScroll(nextButton)
ScrollEnds(duration) == Wait("scroll", duration, "actionDelay")

\* await this.antiDetection.randomDelay() of navigateToNextPage, the click
ActionDelayElapses(delay) == Wait("actionDelay", delay, "pageLoad")

\* await this.waitForPageLoad(), currentPage++ and the head of the loop
PageLoadEnds(duration) ==
  /\ pacing.pc = "pageLoad"
  /\ now' = now + duration
  /\ pacing' = [pacing EXCEPT !.pc = "parseDelay", !.page = @ + 1]
  /\ UNCHANGED <<bgVars, sessionVars, profileVars>>
  /\ UNCHANGED <<nextButton, notifications, contents, sends, linkedinDelay,
                 handlerVars>>

\* the waits of one session, under any parsing-delay setting
PacingNext ==
  \/ \E seconds \in LinkedinDelays : SetLinkedinDelay(seconds)
  \/ StartPacedSession
  \/ \E delay \in randomDelay(minDelay, maxDelay), hasNext \in BOOLEAN :
        ParseDelayElapses(delay, hasNext)
  \/ \E delay \in randomDelay(minPageDelay, maxPageDelay) :
        PageDelayElapses(delay)
  \/ \E duration \in humanScroll : ScrollEnds(duration)
  \/ \E delay \in randomDelay(minDelay, maxDelay) : ActionDelayElapses(delay)
  \/ \E duration \in waitForPageLoad : PageLoadEnds(duration)

PacingSpec == Init /\ [][PacingNext]_vars

(***************************************************************************)
(* The mutual-connections handlers of the background script.               *)
(***************************************************************************)
\* no tab
NoTab == 0

\* the titles of the notifications of the two handlers
Title(kind) ==
  IF kind = "manual" THEN "LinkedIn Parser" ELSE "LinkedIn Auto Parser"

\* a call of a handler: where it is suspended, the tab it opened, its
\* session id, and (history) whether it got as far as opening a tab and the
\* notifications shown from the moment its parsing ended or failed
NewHandler(kind, pc, started) ==
  [kind |-> kind, pc |-> pc, tabId |-> NoTab, bidirectional |-> FALSE,
   started |-> started, endNotes |-> <<>>]

\* the id chrome.tabs.create gives the next tab
FreshTab ==
  Cardinality({h \in DOMAIN handlers : handlers[h].tabId # NoTab}) + 1

\* what a parse request to the parsing tab resolves to: the data of a
\* success (one payload, or the list of the bidirectional payloads), a
\* response with success false, or a rejection
ParseResults ==
  {[rejected |-> TRUE, success |-> FALSE],
   [rejected |-> FALSE, success |-> FALSE],
   [rejected |-> FALSE, success |-> TRUE]}

\* parseResult.data of the two parse actions
SinglePayload == [totalCount |-> 2]

BidirectionalPayloadList == <<[totalCount |-> 2], [relation |-> "mutual"]>>

\* the stored webhooks and send-to mode while the handlers run
HandlerWebhookLists == {<<>>, <<Webhook("A")>>}

HandlerSendModes == {"all", "none"}

\* sendLinkedInDataToWebhooks for each payload of the list
RECURSIVE SendEach(_, _, _, _, _)
SendEach(L, payloads, webhooks, mode, t) ==
  IF payloads = <<>> THEN L
  ELSE SendEach(sendLinkedInDataToWebhooks(L, Head(payloads), webhooks, mode,
                                           {}, t),
                Tail(payloads), webhooks, mode, t)

\* the notifications a step added
NotesSince(L) ==
  SubSeq(L.notifications, Len(notifications) + 1, Len(L.notifications))

\* the catch block of handleLinkedInMutualConnections: the error
\* notification, then every session's tab is removed and its entry deleted
ManualCatch(h) ==
  /\ notifications' = Append(notifications,
                        [title |-> Title("manual"), message |-> "Error"])
  /\ tabs' = tabs \ {linkedinSessions[s].tabId : s \in DOMAIN linkedinSessions}
  /\ linkedinSessions' = <<>>
  /\ handlers' = [handlers EXCEPT
                    ![h].pc = "done",
                    ![h].endNotes = <<[title |-> Title("manual"),
                                       message |-> "Error"]>>]

\* the catch block of handleLinkedInMutualConnectionsAuto
AutoCatch(h) ==
  /\ notifications' = Append(notifications,
                        [title |-> Title("auto"), message |-> "Error"])
  /\ handlers' = [handlers EXCEPT
                    ![h].pc = "done",
                    ![h].endNotes = <<[title |-> Title("auto"),
                                       message |-> "Error"]>>]
  /\ UNCHANGED <<tabs, linkedinSessions>>

\* handleLinkedInMutualConnections(tab), up to the detection request
HandleLinkedInMutualConnections ==
  /\ Len(handlers) < MaxHandlers
  /\ handlers' = Append(handlers, NewHandler("manual", "detecting", FALSE))
  /\ UNCHANGED <<queueVars, sessionVars, profileVars>>
  /\ UNCHANGED <<nextButton, notifications, contents, sends, linkedinDelay,
                 pacing, tabs, linkedinSessions>>

\* the detection request resolves: nothing found, a link found (the start
\* notification, chrome.tabs.create), or a rejection
DetectionAnswered(h, result) ==
  /\ h \in DOMAIN handlers
  /\ handlers[h].pc = "detecting"
  /\ CASE result = "found" ->
            /\ notifications' = Append(notifications,
                 [title |-> Title("manual"),
                  message |-> "Found mutual connections. Starting parsing..."])
            /\ handlers' = [handlers EXCEPT ![h].pc = "creating",
                                            ![h].started = TRUE]
            /\ UNCHANGED <<tabs, linkedinSessions>>
       [] result = "nothing" ->
            /\ notifications' = Append(notifications,
                 [title |-> Title("manual"),
                  message |-> "No mutual connections found on this page"])
            /\ handlers' = [handlers EXCEPT ![h].pc = "done"]
            /\ UNCHANGED <<tabs, linkedinSessions>>
       [] result = "rejected" -> ManualCatch(h)
  /\ UNCHANGED <<queueVars, sessionVars, profileVars>>
  /\ UNCHANGED <<nextButton, contents, sends, linkedinDelay, pacing>>

\* handleLinkedInMutualConnectionsAuto(tabId, profileData), up to
\* chrome.tabs.create
HandleLinkedInMutualConnectionsAuto(hasUrl) ==
  /\ Len(handlers) < MaxHandlers
  /\ IF hasUrl
     THEN /\ notifications' = Append(notifications,
                 [title |-> Title("auto"),
                  message |-> "Auto-parsing mutual connections..."])
          /\ handlers' = Append(handlers, NewHandler("auto", "creating", TRUE))
     ELSE /\ handlers' = Append(handlers, NewHandler("auto", "done", FALSE))
          /\ UNCHANGED notifications
  /\ UNCHANGED <<queueVars, sessionVars, profileVars>>
  /\ UNCHANGED <<nextButton, contents, sends, linkedinDelay, pacing, tabs,
                 linkedinSessions>>

\* chrome.tabs.create resolves with the new tab, then waitForTabLoad
\* registers its listener; or it rejects
TabCreated(h, created) ==
  /\ h \in DOMAIN handlers
  /\ handlers[h].pc = "creating"
  /\ IF created
     THEN /\ tabs' = tabs \cup {FreshTab}
          /\ handlers' = [handlers EXCEPT ![h].pc = "loading",
                                          ![h].tabId = FreshTab]
          /\ UNCHANGED <<notifications, linkedinSessions>>
     ELSE IF handlers[h].kind = "manual" THEN ManualCatch(h) ELSE AutoCatch(h)
  /\ UNCHANGED <<queueVars, sessionVars, profileVars>>
  /\ UNCHANGED <<nextButton, contents, sends, linkedinDelay, pacing>>

\* the onUpdated listener of waitForTabLoad sees status 'complete' for the
\* tab: removeListener, setTimeout(resolve, 2000)
TabComplete(h) ==
  /\ h \in DOMAIN handlers
  /\ handlers[h].pc = "loading"
  /\ handlers[h].tabId \in tabs
  /\ handlers' = [handlers EXCEPT ![h].pc = "settling"]
  /\ UNCHANGED <<queueVars, sessionVars, profileVars>>
  /\ UNCHANGED <<nextButton, notifications, contents, sends, linkedinDelay,
                 pacing, tabs, linkedinSessions>>

\* the 2 s timer of waitForTabLoad resolves it: linkedinSessions.set and the
\* storage read of linkedinBidirectional (the session id is the call's own)
SettleTimerFire(h) ==
  /\ h \in DOMAIN handlers
  /\ handlers[h].pc = "settling"
  /\ linkedinSessions' = MapSet(linkedinSessions, h,
       [tabId |-> handlers[h].tabId,
        status |-> IF handlers[h].kind = "manual" THEN "parsing"
                   ELSE "auto-parsing"])
  /\ handlers' = [handlers EXCEPT ![h].pc = "settings"]
  /\ UNCHANGED <<queueVars, sessionVars, profileVars>>
  /\ UNCHANGED <<nextButton, notifications, contents, sends, linkedinDelay,
                 pacing, tabs>>

\* the storage callback: the parse request is sent to the parsing tab; when
\* the session entry is gone, reading its profileData throws and the catch
\* and finally blocks run
SettingsRead(h, bidirectional) ==
  /\ h \in DOMAIN handlers
  /\ handlers[h].pc = "settings"
  /\ IF h \in DOMAIN linkedinSessions
     THEN /\ handlers' = [handlers EXCEPT ![h].pc = "parsing",
                                          ![h].bidirectional = bidirectional]
          /\ UNCHANGED <<notifications, tabs, linkedinSessions>>
     ELSE /\ notifications' = Append(notifications,
                 [title |-> Title(handlers[h].kind), message |-> "Error"])
          /\ tabs' = tabs \ {handlers[h].tabId}
          /\ handlers' = [handlers EXCEPT
                            ![h].pc = "done",
                            ![h].endNotes = <<[title |-> Title(handlers[h].kind),
                                               message |-> "Error"]>>]
          /\ UNCHANGED linkedinSessions
  /\ UNCHANGED <<queueVars, sessionVars, profileVars>>
  /\ UNCHANGED <<nextButton, contents, sends, linkedinDelay, pacing>>

\* the parse request resolves: on success sendLinkedInDataToWebhooks for
\* the payload (for each payload when bidirectional) and the success
\* notification, else the error notification of the catch block; then the
\* finally block: chrome.tabs.remove and linkedinSessions.delete
ParseAnswered(h, parseResult, webhooks, mode) ==
  /\ h \in DOMAIN handlers
  /\ handlers[h].pc = "parsing"
  /\ handlers[h].tabId \notin tabs => parseResult.rejected
  /\ LET kind == handlers[h].kind
         L0 == LinkedinState
         L1 == IF parseResult.success
               THEN showNotification(
                      SendEach(L0,
                               IF handlers[h].bidirectional
                               THEN BidirectionalPayloadList
                               ELSE <<SinglePayload>>,
                               webhooks, mode, now),
                      Title(kind), "Successfully parsed")
               ELSE showNotification(L0, Title(kind), "Error")
     IN /\ CommitLinkedin(L1)
        /\ handlers' = [handlers EXCEPT ![h].pc = "done",
                                        ![h].endNotes = NotesSince(L1)]
  /\ tabs' = tabs \ {handlers[h].tabId}
  /\ linkedinSessions' = IF h \in DOMAIN linkedinSessions
                         THEN MapDelete(linkedinSessions, h)
                         ELSE linkedinSessions
  /\ UNCHANGED <<now, hist, rlHist, raised>>
  /\ UNCHANGED <<sessionVars, profileVars>>
  /\ UNCHANGED <<nextButton, sends, linkedinDelay, pacing>>

\* the steps of a handler that the browser is bound to take
HandlerStep ==
  \/ \E h \in DOMAIN handlers, result \in {"found", "nothing", "rejected"} :
        DetectionAnswered(h, result)
  \/ \E h \in DOMAIN handlers, created \in BOOLEAN : TabCreated(h, created)
  \/ \E h \in DOMAIN handlers : SettleTimerFire(h)
  \/ \E h \in DOMAIN handlers, bidirectional \in BOOLEAN :
        SettingsRead(h, bidirectional)
  \/ \E h \in DOMAIN handlers, parseResult \in ParseResults,
        webhooks \in HandlerWebhookLists, mode \in HandlerSendModes :
        ParseAnswered(h, parseResult, webhooks, mode)

HandlerNext ==
  \/ HandleLinkedInMutualConnections
  \/ \E hasUrl \in BOOLEAN : HandleLinkedInMutualConnectionsAuto(hasUrl)
  \/ \E h \in DOMAIN handlers : TabComplete(h)
  \/ HandlerStep

\* requests, storage reads and timers of a handler are answered in the end;
\* whether a tab ever reports 'complete' is up to the page
HandlerSpec == Init /\ [][HandlerNext]_vars /\ WF_vars(HandlerStep)

\* the result items of a page that carry a name element with text other than
\* white space and a link with a non-empty href, as records, in page order
RECURSIVE ValidRecords(_)
ValidRecords(items) ==
  IF items = <<>> THEN <<>>
  ELSE LET e == Head(items)
       IN (IF /\ e.name \notin {NoElement, "", " "}
              /\ e.href \notin {NoElement, ""}
           THEN <<[name |-> Trim(e.name), profileUrl |-> e.href]>>
           ELSE <<>>)
          \o ValidRecords(Tail(items))

\* C12: every parsed page appends its records after those of the pages
\* before it and counts as one page; when the parsed page has no next-page
\* affordance the call ends there without error and answers a payload whose
\* mutualConnections are the accumulated records, totalCount their number
\* and pagesScraped the number of pages parsed.
NormalCompletion ==
  [][\A items \in RecordPages, hasNext \in BOOLEAN :
       ParsePage(FALSE, items, hasNext)
         => /\ currentSession'.connections
                 = currentSession.connections \o ValidRecords(items)
            /\ currentSession'.pagesProcessed = currentSession.pagesProcessed + 1
            /\ ~hasNext
                 => /\ run' = Idle
                    /\ ~isProcessing'
                    /\ Len(outcomes') = Len(outcomes) + 1
                    /\ Last(outcomes').success
                    /\ Last(outcomes').error = Null
                    /\ Last(outcomes').data.mutualConnections
                         = currentSession'.connections
                    /\ Last(outcomes').data.totalCount
                         = Len(currentSession'.connections)
                    /\ Last(outcomes').data.pagesScraped
                         = currentSession'.pagesProcessed
    ]_vars

\* a session completed on its second or a later page with records of two
\* different people, and with more records than pages
NormalCompletionWitness ==
  /\ run = Idle
  /\ Len(trace) >= 2
  /\ Last(trace) = "done"
  /\ trace[Len(trace) - 1] = "parse"
  /\ Last(outcomes).success
  /\ Last(outcomes).data.pagesScraped >= 2
  /\ Last(outcomes).data.totalCount > Last(outcomes).data.pagesScraped
  /\ \E i, j \in 1..Len(Last(outcomes).data.mutualConnections) :
        Last(outcomes).data.mutualConnections[i]
          # Last(outcomes).data.mutualConnections[j]

\* a result item whose name element has text other than white space and
\* whose link has a non-empty href
HasEssential(e) ==
  /\ e.name \notin {NoElement, "", " "}
  /\ e.href \notin {NoElement, ""}

\* a record with a non-empty name and a non-empty profileUrl
Essential(c) ==
  /\ c.name \notin {Null, NoElement, "", " "}
  /\ c.profileUrl \notin {Null, NoElement, ""}

\* C13: every record a session has accumulated, and every record of a
\* returned payload, has a non-empty name and a non-empty profileUrl; and a
\* parsed page adds one record for each of its items that has both, in item
\* order, whatever items without them stand before or between these.
EssentialFieldsPresent ==
  /\ [](/\ currentSession # NullObject
           => \A i \in DOMAIN currentSession.connections :
                Essential(currentSession.connections[i])
        /\ \A k \in DOMAIN outcomes :
             outcomes[k].success
               => \A i \in DOMAIN outcomes[k].data.mutualConnections :
                    Essential(outcomes[k].data.mutualConnections[i]))
  /\ [][\A items \in RecordPages, hasNext \in BOOLEAN :
          ParsePage(FALSE, items, hasNext)
            => LET old == Len(currentSession.connections)
                   kept == SelectSeq(items, HasEssential)
               IN /\ Len(currentSession'.connections) = old + Len(kept)
                  /\ \A i \in DOMAIN kept :
                       /\ currentSession'.connections[old + i].name
                            = Trim(kept[i].name)
                       /\ currentSession'.connections[old + i].profileUrl
                            = kept[i].href
       ]_vars

\* a one-page session returned a record although an item of the page was
\* dropped with a warning
EssentialFieldsWitness ==
  /\ run = Idle
  /\ warned
  /\ currentSession # NullObject
  /\ currentSession.pagesProcessed = 1
  /\ outcomes # <<>>
  /\ Last(outcomes).success
  /\ Len(Last(outcomes).data.mutualConnections) = 1

(***************************************************************************)
(* The Field Extractor applied to documents of a few elements.             *)
(***************************************************************************)
\* the tab shows a document with these elements; the content script starts
\* afresh in it
LoadElements(elements) ==
  /\ document' = [kind |-> "elements", elements |-> elements]
  /\ reply' = NullObject
  /\ UNCHANGED <<listenerVars, queueVars, sessionVars, linkedinVars>>

\* extractTextContent(selector) on the current document
ExtractTextContent(selector) ==
  /\ document.kind = "elements"
  /\ reply' = [call |-> "extractTextContent",
               selector |-> selector,
               value |-> extractTextContent(document.elements, selector)]
  /\ UNCHANGED <<document, listenerVars, queueVars, sessionVars, linkedinVars>>

ExtractorNext ==
  \/ \E elements \in ElementLists : LoadElements(elements)
  \/ \E selector \in SelectorLists : ExtractTextContent(selector)

ExtractorSpec == Init /\ [][ExtractorNext]_vars

Extracted == reply # NullObject /\ reply.call = "extractTextContent"

\* the text of the first element, in document order, that matches the
\* candidate, trimmed; Null when no element matches it
CandidateValue(elements, candidate) ==
  LET hits == {k \in DOMAIN elements : elements[k].class = candidate}
  IN IF hits = {} THEN Null
     ELSE Trim(elements[CHOOSE k \in hits : \A h \in hits : k <= h].text)

\* the value of the earliest candidate of the list, taken in list order,
\* whose match has a non-empty text; Null when there is none
RECURSIVE FirstNonEmpty(_, _)
FirstNonEmpty(elements, candidates) ==
  IF candidates = <<>> THEN Null
  ELSE IF CandidateValue(elements, Head(candidates)) \notin {Null, ""}
  THEN CandidateValue(elements, Head(candidates))
  ELSE FirstNonEmpty(elements, Tail(candidates))

\* C15: when a candidate of the selector list has invalid syntax, the Field
\* Extractor skips that candidate only: its result is the one the valid
\* candidates of the list give, and it is null only if none of them matches.
InvalidCandidateSkipped ==
  (Extracted /\ \E i \in DOMAIN reply.selector : ~ValidSyntax(reply.selector[i]))
    => LET valid == SelectSeq(reply.selector, ValidSyntax)
       IN /\ reply.value = extractTextContent(document.elements, valid)
          /\ (reply.value = Null)
               => \A i \in DOMAIN valid :
                    CandidateValue(document.elements, valid[i]) = Null

\* C16: for a list of valid candidates the Field Extractor returns the
\* trimmed text of the match of the earliest candidate, in list order, whose
\* match is non-empty, and null when there is none; it never returns ''.
EarliestNonEmptyCandidate ==
  (Extracted /\ \A i \in DOMAIN reply.selector : ValidSyntax(reply.selector[i]))
    => /\ reply.value = FirstNonEmpty(document.elements, reply.selector)
       /\ reply.value # ""

(***************************************************************************)
(* The profile-page requests of the message listener.                      *)
(***************************************************************************)
\* the tab shows a profile page; the content script starts afresh in it
LoadProfile(d) ==
  /\ document' = d
  /\ reply' = NullObject
  /\ UNCHANGED <<listenerVars, queueVars, sessionVars, linkedinVars>>

\* request.action === 'parseLinkedInProfile'
ParseLinkedInProfile ==
  /\ document.kind = "profile"
  /\ reply' = [call |-> "parseProfilePage",
               data |-> parseProfilePage(document, now)]
  /\ UNCHANGED <<document, listenerVars, queueVars, sessionVars, linkedinVars>>

\* request.action === 'detectMutualConnections'
DetectMutualConnections ==
  /\ document.kind = "profile"
  /\ reply' = [call |-> "detectMutualConnections",
               data |-> detectMutualConnections(document.mutualConnectionsLink)]
  /\ UNCHANGED <<document, listenerVars, queueVars, sessionVars, linkedinVars>>

ProfileNext ==
  \/ \E d \in ProfilePages : LoadProfile(d)
  \/ ParseLinkedInProfile
  \/ DetectMutualConnections

ProfileSpec == Init /\ [][ProfileNext]_vars

\* what chrome.tabs.sendMessage(tabId, {action: 'parseLinkedInProfile'})
\* resolves to: the listener's response, or a rejection when the tab has no
\* content script
ProfileResponse(d, t) ==
  IF d.kind = "profile"
  THEN [rejected |-> FALSE, success |-> TRUE, data |-> parseProfilePage(d, t)]
  ELSE [rejected |-> TRUE, success |-> FALSE, data |-> NullObject]

\* the payload extractLinkedInProfileAndSend builds
ProfilePayload(urlToSend, profileData, t) ==
  [url |-> urlToSend, timestamp |-> t, type |-> "linkedin_profile",
   profile |-> profileData, source |-> "chrome_extension_linkedin_parser"]

\* the payload extractDataAndSendBasic builds for type 'page'; the fields
\* read from the injected script's result are left out
BasicPayload(urlToSend, t) ==
  [url |-> urlToSend, timestamp |-> t, type |-> "page"]

\* addToQueue(webhookUrl, payload, webhookName, rateLimit) from the storage
\* callbacks of the two extraction functions
EnqueuePayload(L, webhookUrl, payload, rateLimit, t) ==
  [L EXCEPT !.bg = addToQueue(L.bg, webhookUrl, L.nextPayload, rateLimit, t),
            !.contents = MapSet(L.contents, L.nextPayload, payload),
            !.nextPayload = L.nextPayload + 1]

\* extractDataAndSendBasic(webhookUrl, urlToSend, 'page', tabId, null)
extractDataAndSendBasic(L, webhookUrl, urlToSend, injected, rateLimit, t) ==
  IF ~injected THEN L
  ELSE EnqueuePayload(L, webhookUrl, BasicPayload(urlToSend, t), rateLimit, t)

\* extractLinkedInProfileAndSend(webhookUrl, urlToSend, tabId), with the
\* storage reads that lead to addToQueue answered
ExtractLinkedInProfileAndSend(webhookUrl, injected) ==
  /\ Cardinality(DOMAIN contents) < MaxProfileSends
  /\ LET parseResult == ProfileResponse(document, now)
         urlToSend == IF document.kind = "profile" THEN document.href ELSE ""
         rateLimit == Webhook(webhookUrl).rateLimit
         L == LinkedinState
     IN CommitLinkedin(
          IF parseResult.rejected \/ ~parseResult.success
          THEN extractDataAndSendBasic(L, webhookUrl, urlToSend, injected,
                                       rateLimit, now)
          ELSE EnqueuePayload(L, webhookUrl,
                 ProfilePayload(urlToSend, parseResult.data, now),
                 rateLimit, now))
  /\ UNCHANGED <<now, hist, rlHist, raised>>
  /\ UNCHANGED <<sessionVars, profileVars, nextButton, sends, linkedinDelay,
                 pacing, handlerVars>>

\* profile pages sent to a webhook from the context menu
ProfileSendNext ==
  \/ \E d \in ProfilePages : document = BlankPage /\ LoadProfile(d)
  \/ \E webhookUrl \in Urls, injected \in BOOLEAN :
        ExtractLinkedInProfileAndSend(webhookUrl, injected)

ProfileSendSpec == Init /\ [][ProfileSendNext]_vars

Parsed == reply # NullObject /\ reply.call = "parseProfilePage"

Detected == reply # NullObject /\ reply.call = "detectMutualConnections"

\* the items of a section that have a title, school or name element with
\* text other than white space
Entitled(section) ==
  IF section = Throws \/ section = NullObject THEN <<>>
  ELSE LET Has(item) == item.bold \notin {NoElement, "", " "}
       IN SelectSeq(section.items, Has)

\* C14: in a parsed profile every experience entry has a title, every
\* education entry a school and every skill a name, and the entries of each
\* list are those of the section's items that have the field, in document
\* order.
RequiredFieldPresent ==
  (Parsed /\ reply.data # NullObject)
    => LET exp == Entitled(document.experienceSection)
           edu == Entitled(document.educationSection)
           ski == Entitled(document.skillsSection)
       IN /\ \A i \in DOMAIN reply.data.experience :
               reply.data.experience[i].title \notin {Null, Undefined, ""}
          /\ \A i \in DOMAIN reply.data.education :
               reply.data.education[i].school \notin {Null, Undefined, ""}
          /\ \A i \in DOMAIN reply.data.skills :
               reply.data.skills[i].name \notin {Null, Undefined, ""}
          /\ Len(reply.data.experience) = Len(exp)
          /\ Len(reply.data.education) = Len(edu)
          /\ Len(reply.data.skills) = Len(ski)
          /\ \A i \in DOMAIN exp :
               reply.data.experience[i].title = Trim(exp[i].bold)
          /\ \A i \in DOMAIN edu :
               reply.data.education[i].school = Trim(edu[i].bold)
          /\ \A i \in DOMAIN ski :
               reply.data.skills[i].name = Trim(ski[i].bold)

\* a profile was parsed whose experience section has an item without a
\* title before an item with one
RequiredFieldWitness ==
  /\ Parsed
  /\ reply.data # NullObject
  /\ document.experienceSection \notin {Throws, NullObject}
  /\ Len(document.experienceSection.items) = 2
  /\ document.experienceSection.items[1].bold = " "
  /\ document.experienceSection.items[2].bold = " Bea "
  /\ Len(reply.data.experience) = 1
  /\ reply.data.experience[1].title = "Bea"

\* C17: an error raised by the query of one field of parseProfilePage makes
\* that field null only: the profile record is still returned, with the
\* fields whose queries did not fail.
OneFieldErrorIsolated ==
  Parsed
    => /\ reply.data # NullObject
       /\ reply.data.name = TextOf(document.profileName)
       /\ reply.data.title = TextOf(document.profileTitle)
       /\ reply.data.location = TextOf(document.profileLocation)
       /\ reply.data.about = TextOf(document.aboutSection)
       /\ reply.data.profileImageUrl = AttributeOf(document.profileImage)

\* the count a label states in one of the forms 'N mutual connections',
\* 'N other mutual connections', 'N mutual connection' (also with 'other'):
\* its index in the label, 0 when the label states none
StatedCount(words) ==
  LET At(i) == /\ IsDigits(words[i])
               /\ LET rest == SubSeq(words, i + 1, Len(words))
                  IN \E noun \in {"connection", "connections"} :
                       \/ rest = <<"mutual", noun>>
                       \/ rest = <<"other", "mutual", noun>>
  IN IF \E i \in DOMAIN words : At(i)
     THEN (CHOOSE i \in DOMAIN words : At(i)) ELSE 0

\* C18: when the label of the shared-connections link states a count N,
\* detectMutualConnections reports totalCount = N + 2; totalCount is null
\* only when the label states no count.
TotalCountIsLabelPlusTwo ==
  (Detected /\ reply.data # NullObject)
    => LET i == StatedCount(reply.data.text)
       IN IF i = 0
          THEN reply.data.totalCount = NullObject
          ELSE reply.data.totalCount = Num(parseInt(reply.data.text[i]) + 2)

Built == reply # NullObject /\ reply.call = "buildBidirectionalPayloads"

\* C19: for a session with N records buildBidirectionalPayloads returns
\* N + 1 payloads: the aggregate payload first, then one payload per record
\* in record order, naming the record's person as profileViewed and the
\* source profile as mutualConnectionsWith, with relationType
\* 'mutual_connection'.
BidirectionalPayloads ==
  Built
    => LET N == Len(currentSession.connections)
           source == currentSession.profileData
       IN /\ Len(reply.data) = N + 1
          /\ reply.data[1].mutualConnections = currentSession.connections
          /\ reply.data[1].totalCount = N
          /\ reply.data[1].profileViewed.profileUrl = source.profileUrl
          /\ \A i \in 1..N :
               /\ reply.data[i + 1].profileViewed.name
                    = currentSession.connections[i].name
               /\ reply.data[i + 1].profileViewed.profileUrl
                    = currentSession.connections[i].profileUrl
               /\ reply.data[i + 1].mutualConnectionsWith.profileUrl
                    = source.profileUrl
               /\ reply.data[i + 1].mutualConnectionsWith.name
                    = (IF source.profileName = Null THEN ""
                       ELSE source.profileName)
               /\ reply.data[i + 1].mutualConnectionsWith.encodedId
                    = (IF source.encodedId = Null THEN "" ELSE source.encodedId)
               /\ reply.data[i + 1].metadata.relationType = "mutual_connection"

\* payloads were built for a session with records of two different people
BidirectionalPayloadsWitness ==
  /\ Built
  /\ Len(reply.data) >= 3
  /\ reply.data[2].profileViewed.name = "Ann"
  /\ reply.data[3].profileViewed.name = "Bea"

(***************************************************************************)
(* A session whose page-load waits take time: the clock advances while     *)
(* waitForPageLoad waits and its fallback timer fires when due.            *)
(***************************************************************************)
PageLoadNext ==
  \/ \E profileData \in Profiles :
        calls = 0 /\ ParseAllMutualConnections(profileData)
  \/ \E items \in Pages, hasNext \in BOOLEAN :
        ParsePage(FALSE, items, hasNext)
  \/ NavigateToNextPage(TRUE)
  \/ ResultsAppeared
  \/ PageLoadTimerFire
  \/ PageLoadTick

PageLoadSpec ==
  /\ Init
  /\ [][PageLoadNext]_vars
  /\ WF_vars(PageLoadTimerFire)
  /\ WF_vars(PageLoadTick)

\* C20: the wait of waitForPageLoad ends by resolving, never by a
\* rejection, no later than 10 s after it began, whether or not the results
\* container appears; a session that waits for a page load always gets on.
PageLoadResolves ==
  /\ [](run.pc = "pageLoad"
          => /\ pageLoadTimer # NoTimer
             /\ now <= pageLoadTimer)
  /\ [][(run.pc = "pageLoad" /\ run'.pc # "pageLoad")
          => /\ now <= pageLoadTimer
             /\ now' = now
             /\ \/ /\ run'.pc = "parseDelay"
                   /\ run'.currentPage = run.currentPage + 1
                   /\ outcomes' = outcomes
                \/ /\ run' = Idle
                   /\ Last(outcomes').success
       ]_vars
  /\ ((run.pc = "pageLoad") ~> (run.pc # "pageLoad"))

\* the second page of a session was reached by a wait that lasted the full
\* 10 s: the results container never appeared
PageLoadResolvesWitness ==
  /\ run.pc = "parseDelay"
  /\ run.currentPage = 2
  /\ run.checkedAt = currentSession.startTime + PageLoadTimeout
  /\ pageLoadTimer = NoTimer

\* C21: while no session is running the parser holds no session state:
\* after a session has ended, normally or by an error, its source profile,
\* records and page counter are gone.
SessionTornDown ==
  (~isProcessing /\ run = Idle) => currentSession = NullObject

\* C22: a refresh timer (the interval of a queued notification) is no longer
\* active 60 s after it was started, however the entries were enqueued.
RefreshTimersCancelled ==
  \A i \in intervals : now <= i.started + NotificationCeiling

\* C26: a retry of a delivery is dispatched no sooner than 1 s after the
\* non-success response of the attempt before it, and no sooner than 2 s
\* after that attempt ended in a network exception.
RetryNotBeforeDelay ==
  [][\A p \in DOMAIN deliveries :
       (deliveries[p].phase = "retryWait" /\ deliveries'[p].phase = "fetching")
         => now - deliveries[p].settledAt >=
              (IF Last(deliveries[p].results) = "http"
               THEN 1 * MsPerSecond ELSE 2 * MsPerSecond)]_vars

RetryNotBeforeDelayWitness ==
  \E p \in DOMAIN deliveries :
    /\ deliveries[p].results = <<"http", "net">>
    /\ Len(deliveries[p].retriedAt) = 2
    /\ deliveries[p].phase = "fetching"

\* the times of the POST attempts made to an endpoint: the dispatches of its
\* queue and the retries of its deliveries
PostAttempts(url) ==
  {[payload |-> sent[url][i].payload, attempt |-> 1, at |-> sent[url][i].at] :
     i \in DOMAIN sent[url]}
  \cup UNION {{[payload |-> p, attempt |-> k + 1,
                at |-> deliveries[p].retriedAt[k]] :
                 k \in DOMAIN deliveries[p].retriedAt} :
              p \in {q \in DOMAIN deliveries : deliveries[q].url = url}}

\* C30: with a minimum interval of I > 0 seconds, two POST attempts to the
\* same endpoint, retries of a failed delivery included, are at least I
\* seconds apart.
MinIntervalWithRetries ==
  \A url \in DOMAIN webhookQueues :
    webhookQueues[url].rateLimit > 0 =>
      \A a, b \in PostAttempts(url) :
        (a # b /\ a.at <= b.at) =>
          b.at - a.at >= webhookQueues[url].rateLimit * MsPerSecond

\* a next-page button that exists, is not disabled and whose aria-disabled
\* attribute is not 'true'
UsableButton(button) ==
  /\ button # NoButton
  /\ ~button.disabled
  /\ button.ariaDisabled # "true"

\* C28: when a page has been parsed the session goes on to a next page
\* exactly when the next-page button exists, is not disabled and its
\* aria-disabled attribute is not 'true'.
NextPageIffUsableButton ==
  [][(run.pc = "parseDelay" /\ run'.pc # "parseDelay")
       => ((run'.pc = "pageDelay") <=> UsableButton(nextButton))]_vars

\* the payloads an endpoint got: dispatched or waiting in its queue
EnqueuedTo(url) == SentPayloads(url) \cup PendingPayloads(url)

\* the (1-based) positions of the webhooks a call is to send to
Targets(call) ==
  {i \in DOMAIN call.webhooks :
     \/ call.mode = "all"
     \/ call.mode = "selected" /\ (i - 1) \in call.selected}

\* C23: a call of sendLinkedInDataToWebhooks enqueues the LinkedIn payload
\* once for every configured webhook under 'all', once for exactly the
\* webhooks whose index is in selectedLinkedinWebhooks under 'selected', and
\* for no webhook under 'none'.
SendsToConfiguredTargets ==
  \A k \in DOMAIN sends :
    LET call == sends[k]
        made == call.first..call.last
    IN /\ \A url \in Urls :
            Cardinality(made \cap EnqueuedTo(url))
              = Cardinality({i \in Targets(call) : call.webhooks[i].url = url})
       /\ Cardinality(made) = Cardinality(Targets(call))
       /\ \A p \in made :
            /\ contents[p].data = call.data
            /\ contents[p].type = "linkedin_mutual_connections"

SendsToConfiguredTargetsWitness ==
  \E k \in DOMAIN sends :
    /\ sends[k].mode = "selected"
    /\ sends[k].webhooks = <<Webhook("A"), Webhook("B")>>
    /\ sends[k].selected = {1}
    /\ EnqueuedTo("B") = {sends[k].first}
    /\ EnqueuedTo("A") = {}

\* C29: no 'linkedin_profile' payload is enqueued with a null profile; when
\* parseProfilePage yields no record the payload enqueued is a basic 'page'
\* payload.
NoNullProfilePayload ==
  \A p \in DOMAIN contents :
    contents[p].type = "linkedin_profile" => contents[p].profile # NullObject

\* C24: the pause between the parsing of two successive pages of a session
\* is never shorter than the configured parsing delay.
PauseAtLeastConfiguredDelay ==
  pacing.page > 1 /\ pacing.parsedAt > 0 /\ pacing.pc # "parseDelay"
    => pacing.pause >= linkedinDelay * MsPerSecond

\* C25: a parsing tab opened by one of the two handlers is closed in the end
\* and no linkedinSessions entry for it remains, whatever becomes of the
\* parsing and whether or not the tab finishes loading.
OpenedTabsClosed ==
  \A h \in 1..MaxHandlers :
    (h \in DOMAIN handlers /\ handlers[h].tabId # NoTab)
      ~> (/\ h \in DOMAIN handlers
          /\ handlers[h].tabId \notin tabs
          /\ \A s \in DOMAIN linkedinSessions :
               linkedinSessions[s].tabId # handlers[h].tabId)

\* C27: a session a handler started has produced exactly one notification
\* about its outcome when the handler is through with it.
OneSummaryNotification ==
  \A h \in DOMAIN handlers :
    (handlers[h].started /\ handlers[h].pc = "done")
      => Len(handlers[h].endNotes) = 1

\* success responses of one endpoint are seen in enqueue order (payloads are
\* numbered in enqueue order)
DeliveredInEnqueueOrder ==
  \A p, q \in DOMAIN deliveries :
    (/\ p < q
     /\ deliveries[p].url = deliveries[q].url
     /\ deliveries[p].phase = "success"
     /\ deliveries[q].phase = "success")
      => deliveries[p].settledAt <= deliveries[q].settledAt

(***************************************************************************)
(* The message listener of the content script and its parse requests.      *)
(***************************************************************************)
ParseActions ==
  {"parseAllMutualConnections", "parseAllMutualConnectionsBidirectional"}

\* new LinkedInMutualConnectionsParser()
NewParser == [isProcessing |-> FALSE, currentPage |-> 0, pagesProcessed |-> 0]

\* the listener gets a parse request: const parser = new
\* LinkedInMutualConnectionsParser(), then parser.parseAllMutualConnections
\* up to its first await
OnParseMessage(action) ==
  /\ Len(parsers) < MaxMessages
  /\ LET parser == NewParser
     IN parsers' = Append(parsers,
          IF parser.isProcessing
          THEN [action |-> action, parser |-> parser,
                response |-> [success |-> FALSE, error |-> InProgressError]]
          ELSE [action |-> action,
                parser |-> [parser EXCEPT !.isProcessing = TRUE,
                                          !.currentPage = 1],
                response |-> NullObject])
  /\ UNCHANGED <<document, reply, menuVars, queueVars, sessionVars, linkedinVars>>

\* one round of the while loop of the parser made for request i: the page is
\* parsed; the loop ends when there is no next page or the page cap is
\* reached, and finally clears the flag
CollectionStep(i, hasNext) ==
  /\ i \in DOMAIN parsers
  /\ parsers[i].parser.isProcessing
  /\ LET p == [parsers[i].parser EXCEPT !.pagesProcessed = @ + 1]
     IN parsers' = [parsers EXCEPT ![i] =
          IF hasNext /\ p.currentPage + 1 <= maxPagesPerSession
          THEN [@ EXCEPT !.parser = [p EXCEPT !.currentPage = @ + 1]]
          ELSE [@ EXCEPT !.parser = [p EXCEPT !.isProcessing = FALSE],
                         !.response = [success |-> TRUE, error |-> Null]]]
  /\ UNCHANGED <<document, reply, menuVars, queueVars, sessionVars, linkedinVars>>

\* a throw inside the try block of the parser made for request i
CollectionThrows(i, error) ==
  /\ i \in DOMAIN parsers
  /\ parsers[i].parser.isProcessing
  /\ parsers' = [parsers EXCEPT
                   ![i].parser.isProcessing = FALSE,
                   ![i].response = [success |-> FALSE, error |-> error]]
  /\ UNCHANGED <<document, reply, menuVars, queueVars, sessionVars, linkedinVars>>

ListenerNext ==
  \/ \E action \in ParseActions : OnParseMessage(action)
  \/ \E i \in DOMAIN parsers, hasNext \in BOOLEAN : CollectionStep(i, hasNext)
  \/ \E i \in DOMAIN parsers,
        error \in {BotProtectionError, SessionTimeoutError, NextButtonError} :
        CollectionThrows(i, error)

ListenerSpec == Init /\ [][ListenerNext]_vars

\* the collection loops that are running in the content script
RunningLoops == {i \in DOMAIN parsers : parsers[i].parser.isProcessing}

\* C35: when a parse request reaches the content script while the collection
\* of an earlier one is still running, it is rejected with 'Parsing already
\* in progress': at most one collection loop drives the page at any time.
AtMostOneCollectionLoop ==
  /\ Cardinality(RunningLoops) <= 1
  /\ \A i \in DOMAIN parsers :
       (\E j \in 1..(i - 1) : j \in RunningLoops) =>
         /\ parsers[i].response # NullObject
         /\ parsers[i].response.error = InProgressError

(***************************************************************************)
(* The context menu of the background script.                              *)
(***************************************************************************)
\* the webhooks the options page can store
StoredHooks ==
  {[url |-> "A", name |-> "Hook A", rateLimit |-> UndefinedObject],
   [url |-> "B", name |-> "B", rateLimit |-> Num(2)]}

StoredHookLists == UNION {[1..n -> StoredHooks] : n \in 0..MaxWebhooks}

\* name.replace(/[^a-zA-Z0-9_-]/g, '_').substring(0, 50)
sanitizeMenuId(name) ==
  CASE name = "Hook A" -> "Hook_A"
    [] OTHER -> name

\* String(index) of a template literal, and parseInt of it
IndexText(index) ==
  CASE index = 0 -> "0"
    [] index = 1 -> "1"
    [] index = 2 -> "2"
    [] index = 3 -> "3"

ParseIndex(text) ==
  CASE text = "0" -> 0
    [] text = "1" -> 1
    [] text = "2" -> 2
    [] text = "3" -> 3

\* text.split('_') of the sanitized names
SplitUnderscore(text) ==
  CASE text = "Hook_A" -> <<"Hook", "A">>
    [] OTHER -> <<text>>

\* `sendTo_${sanitizedId}_${index}_${kind}`, as its parts between underscores
MenuItemId(name, index, kind) ==
  <<"sendTo">> \o SplitUnderscore(sanitizeMenuId(name))
    \o <<IndexText(index), kind>>

\* the child items the forEach of updateWebhookMenus creates; createdFor
\* remembers the address of the webhook an item was made for
ChildItems(webhooks) ==
  {[id |-> MenuItemId(webhooks[i].name, i - 1, kind),
    title |-> webhooks[i].name,
    createdFor |-> webhooks[i].url] :
     i \in DOMAIN webhooks, kind \in {"normal", "selection"}}

\* chrome.storage.onChanged with changes.webhooks: updateWebhookMenus()
\* restarts its 100 ms timer, initializeQueues() rewrites the rate limits
StorageChanged(webhooks) ==
  /\ webhooks # storedWebhooks
  /\ storedWebhooks' = webhooks
  /\ menuRebuild' = [menuRebuild EXCEPT !.timer = TRUE]
  /\ webhookQueues' = initializeQueues(webhookQueues, webhooks)
  /\ UNCHANGED <<menuItems, clicks, parsers, document, reply>>
  /\ UNCHANGED <<now, queueNotifications, timers, storageGets, intervals,
                 clearTimers, shown, deliveries, nextPayload, sent, hist,
                 rlHist, raised>>
  /\ UNCHANGED <<sessionVars, linkedinVars>>

\* the timer of updateWebhookMenus fires: chrome.contextMenus.removeAll
MenuTimerFire ==
  /\ menuRebuild.timer
  /\ menuRebuild.stage = "idle"
  /\ menuRebuild' = [timer |-> FALSE, stage |-> "removing"]
  /\ UNCHANGED <<storedWebhooks, menuItems, clicks, parsers, document, reply>>
  /\ UNCHANGED <<queueVars, sessionVars, linkedinVars>>

\* removeAll has removed the items: the parent is created again and the
\* stored list is asked for
MenusRemoved ==
  /\ menuRebuild.stage = "removing"
  /\ menuItems' = {}
  /\ menuRebuild' = [menuRebuild EXCEPT !.stage = "reading"]
  /\ UNCHANGED <<storedWebhooks, clicks, parsers, document, reply>>
  /\ UNCHANGED <<queueVars, sessionVars, linkedinVars>>

\* the chrome.storage.local.get callback of updateWebhookMenus: the child
\* items of the webhooks stored now
MenusCreated ==
  /\ menuRebuild.stage = "reading"
  /\ menuItems' = ChildItems(storedWebhooks)
  /\ menuRebuild' = [menuRebuild EXCEPT !.stage = "idle"]
  /\ UNCHANGED <<storedWebhooks, clicks, parsers, document, reply>>
  /\ UNCHANGED <<queueVars, sessionVars, linkedinVars>>

\* chrome.contextMenus.onClicked for a child item, with its storage callback:
\* the index is read from the id and looked up in the list stored now
MenuClicked(item) ==
  /\ Len(clicks) < MaxClicks
  /\ item \in menuItems
  /\ LET parts == item.id
         indexPart == parts[Len(parts) - 1]
         index == ParseIndex(indexPart)
         found == index + 1 \in DOMAIN storedWebhooks
     IN clicks' = Append(clicks,
          [createdFor |-> item.createdFor,
           sentTo |-> IF found THEN storedWebhooks[index + 1].url ELSE Null,
           phase |-> IF found THEN "extracting" ELSE "done"])
  /\ UNCHANGED <<storedWebhooks, menuItems, menuRebuild, parsers, document,
                 reply>>
  /\ UNCHANGED <<queueVars, sessionVars, linkedinVars>>

\* wh => wh.url === webhookUrl, then webhook ? webhook.rateLimit || 0 : 0
RateLimitOf(webhooks, url) ==
  IF \E i \in DOMAIN webhooks : webhooks[i].url = url
  THEN OrZero(webhooks[CHOOSE i \in DOMAIN webhooks :
                         /\ webhooks[i].url = url
                         /\ \A j \in 1..(i - 1) : webhooks[j].url # url].rateLimit)
  ELSE 0

\* the callbacks of extractDataAndSend for the click c: the script result
\* arrives (or the injection failed), the stored list is read and the
\* payload goes to addToQueue under the address the click handed on
ExtractionDone(c, injected) ==
  /\ c \in DOMAIN clicks
  /\ clicks[c].phase = "extracting"
  /\ nextPayload <= MaxEntries
  /\ clicks' = [clicks EXCEPT ![c].phase = "done"]
  /\ IF injected
     THEN LET payload == nextPayload
              url == clicks[c].sentTo
              rateLimit == RateLimitOf(storedWebhooks, url)
              S == addToQueue(BgState, url, payload, rateLimit, now)
          IN /\ Commit(S)
             /\ nextPayload' = nextPayload + 1
             /\ hist' = MapSet(hist, payload,
                  [url |-> url, rateLimit |-> rateLimit,
                   immediate |-> \E i \in 1..Len(S.sent[url]) :
                                    S.sent[url][i].payload = payload,
                   queued |-> \E g \in S.sg : g.payload = payload])
             /\ rlHist' = [rlHist EXCEPT ![url] = @ \cup {rateLimit}]
     ELSE UNCHANGED <<bgVars>>
  /\ UNCHANGED <<now, raised, storedWebhooks, menuItems, menuRebuild, parsers,
                 document, reply>>
  /\ UNCHANGED <<sessionVars, linkedinVars>>

MenuNext ==
  \/ \E webhooks \in StoredHookLists : StorageChanged(webhooks)
  \/ MenuTimerFire
  \/ MenusRemoved
  \/ MenusCreated
  \/ \E item \in menuItems : MenuClicked(item)
  \/ \E c \in DOMAIN clicks, injected \in BOOLEAN : ExtractionDone(c, injected)

MenuSpec == Init /\ [][MenuNext]_vars

\* C38: a click on the menu item that was created for webhook W sends the
\* data to W's address or to nothing, never to a different webhook, also
\* when the stored list was changed after the menu was built and before the
\* debounced rebuild ran.
ClickSendsToItsWebhook ==
  \A c \in DOMAIN clicks :
    clicks[c].sentTo \in {clicks[c].createdFor, Null}

\* a delivery that failed at least once and has not ended yet
Retrying(p) ==
  /\ p \in DOMAIN deliveries
  /\ \/ deliveries[p].phase = "retryWait"
     \/ deliveries[p].phase = "fetching" /\ deliveries[p].attempts > 1

\* no payload is dispatched while an earlier one of its endpoint is retrying
NoDispatchWhileRetrying ==
  \A q \in DOMAIN deliveries' :
    q \notin DOMAIN deliveries =>
      \A p \in 1..(q - 1) :
        (Retrying(p) /\ deliveries[p].url = deliveries'[q].url) => FALSE

\* C31: for one endpoint, payloads are successfully delivered in the order
\* they were enqueued, also when an earlier payload is retried, and a later
\* entry is never dispatched while an earlier delivery to the same endpoint
\* is still retrying.
OrderedDelivery ==
  []DeliveredInEnqueueOrder /\ [][NoDispatchWhileRetrying]_vars

\* C32: every entry added to an endpoint's queue is eventually dispatched,
\* also when the endpoint's rate limit is changed by a later addToQueue or
\* by initializeQueues while entries are pending.
EveryEntryDispatched ==
  \A p \in 1..MaxDrained :
    (p \in PendingPayloads("A")) ~> (p \in SentPayloads("A"))

\* an entry that waited in its queue was dispatched under a rate limit other
\* than the one it was added with
EveryEntryDispatchedWitness ==
  \E url \in Urls : \E i \in 1..Len(sent[url]) :
    LET p == sent[url][i].payload
    IN /\ ~hist[p].immediate
       /\ sent[url][i].rateLimit # hist[p].rateLimit

\* C33: a dispatched delivery shows no notification while a fetch or a retry
\* of it is pending and, once it has ended, exactly one: the success
\* notification or one failure or error notification, never both and never
\* one of them twice.
OneTerminalNotification ==
  \A p \in DOMAIN deliveries :
    LET d == deliveries[p]
    IN /\ d.phase \in {"fetching", "retryWait"} => d.notifications = <<>>
       /\ d.phase = "success" => d.notifications = <<"Success">>
       /\ d.phase = "failed" => d.notifications = <<"Failed">>
       /\ d.phase = "error" => d.notifications = <<"Error">>

\* a delivery that met a network error was retried and ended with the
\* failure notification
OneTerminalNotificationWitness ==
  \E p \in DOMAIN deliveries :
    /\ deliveries[p].attempts > 1
    /\ deliveries[p].phase = "failed"
    /\ "net" \in {deliveries[p].results[i] :
                    i \in DOMAIN deliveries[p].results}

\* no session of the parser is running: isProcessing is false
FlagClearWhenIdle == run.pc = "idle" => ~isProcessing

\* a call made while no session is running starts one and rejects nothing
CallWhenIdleStarts ==
  (run.pc = "idle" /\ calls' # calls) =>
    (isProcessing' /\ run'.pc # "idle" /\ outcomes' = <<>>)

\* C34: after parseAllMutualConnections has ended in any way (normal return,
\* timeout, block detected, navigation error) isProcessing is false, and a
\* later call on the same parser starts a new session instead of being
\* rejected with 'Parsing already in progress'.
ProcessingClearedAtEnd ==
  []FlagClearWhenIdle /\ [][CallWhenIdleStarts]_vars

\* the second call on the parser, made after the first session had ended,
\* has started a session: nothing was rejected
ProcessingClearedAtEndWitness ==
  /\ calls = 2
  /\ isProcessing
  /\ run.pc # "idle"
  /\ outcomes = <<>>

\* C36: a step of one handleLinkedInMutualConnections invocation never
\* closes the parsing tab or deletes the linkedinSessions entry of another
\* invocation whose parsing is still in progress (sessions are numbered by
\* the invocation that created them).
SessionsIsolated ==
  [][\A s \in DOMAIN linkedinSessions :
       (/\ handlers[s].pc \in {"settings", "parsing"}
        /\ handlers'[s] = handlers[s])
         => /\ s \in DOMAIN linkedinSessions'
            /\ linkedinSessions[s].tabId \in tabs']_vars

\* C37: all payloads built from one collection session, the aggregate
\* payload and every per-connection payload, carry the same
\* metadata.sessionId.
SameSessionId ==
  (reply # NullObject /\ reply.call = "sessionPayloads") =>
    \A i, j \in DOMAIN reply.data :
      reply.data[i].metadata.sessionId = reply.data[j].metadata.sessionId

\* C39: when the next-page button was there for hasNextPage but is gone when
\* navigateToNextPage runs after the page delay, the session completes
\* normally and returns the records collected so far.
ButtonGoneCompletes ==
  [][(run.pc = "pageDelay" /\ nextButton = NoButton /\ run'.pc # "pageDelay")
       => /\ outcomes' # <<>>
          /\ Last(outcomes').success
          /\ Last(outcomes').data.mutualConnections
               = currentSession.connections]_vars

Next ==
  \/ QueueNext \/ NotificationNext \/ DeliveryNext
  \/ SessionNext \/ CompletionNext
  \/ ExtractorNext \/ ProfileNext
  \/ PageLoadNext

Spec == Init /\ [][Next]_vars

====
